---- MODULE Spec2Model ----
(***************************************************************************)
(* auto-gen-playlist: the last.fm history cache (lastfm/api.py), the       *)
(* retrying fetch engine (requests.py) and the range counter               *)
(* (lastfm/core.py, lastfm/misc.py).                                       *)
(*                                                                         *)
(* Spec        : get_user_history / fetch_tracks_all running against a     *)
(*               remote scrobble service and one user's cache file.        *)
(* SpecCounter : get_user_track_counter applied to every bounded history.  *)
(* SpecSelect  : the candidate selection of the track resolver              *)
(*               (spotify/api.py, spotify/search.py) applied to every      *)
(*               bounded candidate list.                                   *)
(* SpecDetect  : detect_track / find_track_in_spotify called on a session  *)
(*               against every bounded pair of per-locale answers.         *)
(* SpecBimonth : get_user_two_months_track_counter on a year of history.   *)
(* SpecEvents  : get_user_track_counter on records with missing fields.    *)
(* SpecPage    : a refetch of a one-page history of raw records.           *)
(* SpecUpdates : two get_user_history(update=True) calls on one file.      *)
(* SpecBatch   : the top-track loops of core.py and top_track.py.          *)
(* SpecFetchAll: the tasks of one fetch_all under fair scheduling.         *)
(* SpecBisect  : bisect_left_with_descending, one pass at a time.          *)
(* SpecRetry   : a call decorated with automatic_retry (three modules).    *)
(* SpecPlaylistItems : playlist_items / _playlist_items under the          *)
(*               decorator.                                                *)
(* SpecChunks  : the batch loops that send an id list in slices of 100.    *)
(* SpecModes   : get_user_track_counter in its two identity modes.         *)
(* SpecGenerate: the playlist loop of top_track.py.                        *)
(* SpecSeasons : calculate_top_tracks of lastfm-utils/playlist.py.         *)
(***************************************************************************)
EXTENDS Integers, Sequences, FiniteSets

VARIABLES
    remote,     \* the service's scrobbles of the user, newest first (raw records)
    cache,      \* the cache file {user}.json: [exists, torn, data]
    pc,         \* position of the running get_user_history call
    op,         \* its arguments [update, refetch]
    prev,       \* the cache file as it was when the call started
    remote0,    \* the service's scrobbles as they were when the call started
    since,      \* fetch_tracks_all: local `since` (NoBound for None)
    req,        \* the last _fetch call that ended: [what, page, n, ret, val, last]
    max_pages,  \* fetch_tracks: local `max_pages`
    tasks,      \* fetch_all: one task per url, [st, ret, val]
    res,        \* fetch_tracks_all: local `res`
    asked,      \* kinds of request sent during the call
    result,     \* outcome of the call: [kind, value]
    updates,    \* concurrent get_user_history(update=True) calls: [ops, written]
    query,      \* get_user_track_counter: [tracks, since, until, ignore_album]
    counter,    \* get_user_track_counter: [state, since_idx, until_idx, count]
    bisection,  \* bisect_left_with_descending: [a, x, lo, hi, evaluations, pc]
    wanted,     \* the resolver's arguments [title, artist]
    results,    \* the candidate list handed to the selection
    song,       \* what the resolver returned: [fn, state, ret]
    sp,         \* the Spotify session: [language]
    catalog,    \* what a search brings back in each language
    dpc,        \* position of the running detect_track / find_track_in_spotify
    searched,   \* languages of the searches the running call has made
    earlier,    \* what the earlier calls on the session returned
    before,     \* the session as it was when the running call started
    batch,      \* the top-track loop: its caller, its counter and its ids
    retry,      \* a call decorated with automatic_retry: [module, fn, outcomes, calls, state, value]
    chunks,     \* a batch operation on an id list: [op, ids, done, failed, fts, sent, state, ret]
    abandoned,  \* a page of some update was given up after its attempts (history)
    generation, \* the playlist loop of top_track.py: [update_old, found, pls, playlists, at]
    seasons     \* lastfm-utils calculate_top_tracks: [scrobbles, state, ref_time, count, windows]

vars == <<remote, cache, pc, op, prev, remote0, since, req, max_pages, tasks, res,
          asked, result, updates, query, counter, bisection, wanted, results, song, sp,
          catalog, dpc,
          searched, earlier, before, batch, retry, chunks, abandoned,
          generation, seasons>>

cacheVars == <<remote, cache, pc, op, prev, remote0, since, req, max_pages, tasks, res,
               asked, result, updates>>

counterVars == <<query, counter, bisection>>

catalogVars == <<retry, chunks, generation>>

historyVars == <<abandoned>>

legacyVars == <<seasons>>

resolverVars == <<wanted, results, song, sp, catalog, dpc, searched, earlier,
                  before, batch>>

----------------------------------------------------------------------------
(* Bounds of the model *)

\* longest remote history
MaxRemote == 4
\* records per page of user.getrecenttracks (the code asks for limit=200)
PageLimit == 1
\* longest history handed to get_user_track_counter
MaxTracks == 3
\* largest timestamp of a history handed to get_user_track_counter
MaxUts == 3
\* longest candidate list handed to the resolver (the search asks for limit=20)
MaxCands == 3
\* largest total_tracks of a candidate's album
MaxTotal == 2
\* longest history handed to the two-month counter
MaxEvents == 3
\* instants of a calendar month: its first instant and the later ones
MonthLen == 2
\* most records of the one page of a raw history
MaxPageLen == 2
\* the year of the two-month counters
Year == 2024

(* Program constants *)

\* for _ in range(5)
MaxAttempts == 5
\* fetch_all(..., limit=3)
Limit == 3
\* until_ts when until is None: the code's 2_220_000_000 is past the model's
\* 32-bit integers; like it, this value is past every timestamp of a history
UntilDefault == 2147483647
\* since_ts when since is None
SinceDefault == 0

\* the value of an absent optional argument (Python None) where an integer is expected
None == -1
\* no concurrent calls
NoUpdates == [ops |-> <<>>, written |-> {}]
\* `since` of a request without lower bound (from="")
NoBound == 0

----------------------------------------------------------------------------
(* Records *)

Songs ==
    { [name |-> "A", artist |-> "X", album |-> "P"],
      [name |-> "A", artist |-> "X", album |-> "Q"],
      [name |-> "B", artist |-> "Y", album |-> "P"] }

\* what the user plays while the cache machine runs
Played == [name |-> "A", artist |-> "X", album |-> "P"]

\* a raw record of the service: the stored fields and the bulky ones
RawTrack(s, uts) ==
    [name |-> s.name, artist |-> s.artist, album |-> s.album, uts |-> uts,
     image |-> "img", streamable |-> "0"]

\* a record as the cache file holds it
Track(s, uts) ==
    [name |-> s.name, artist |-> s.artist, album |-> s.album, uts |-> uts]

Uts(track) == track.uts

RECURSIVE Concat(_)
Concat(ss) ==
    IF ss = <<>> THEN <<>> ELSE Head(ss) \o Concat(Tail(ss))

IsSortedDesc(s) ==
    \A i \in 1..(Len(s) - 1) : Uts(s[i]) >= Uts(s[i + 1])

IsStrictlyDesc(s) ==
    \A i \in 1..(Len(s) - 1) : Uts(s[i]) > Uts(s[i + 1])

NoDuplicates(s) ==
    \A i, j \in 1..Len(s) : i # j => s[i] # s[j]

IsSuffix(s, t) ==
    /\ Len(s) <= Len(t)
    /\ SubSeq(t, Len(t) - Len(s) + 1, Len(t)) = s

----------------------------------------------------------------------------
(* lastfm/misc.py, lastfm/core.py: the range counter *)

\* bisect_left with "<" on a descending list: `mid` is a 0-based index
RECURSIVE bisect_left_with_descending_le(_, _, _, _)
bisect_left_with_descending_le(a, x, lo, hi) ==
    IF lo < hi
    THEN LET mid == (lo + hi) \div 2
         IN  IF Uts(a[mid + 1]) <= x
             THEN bisect_left_with_descending_le(a, x, lo, mid)
             ELSE bisect_left_with_descending_le(a, x, mid + 1, hi)
    ELSE lo

RECURSIVE bisect_left_with_descending(_, _, _, _)
bisect_left_with_descending(a, x, lo, hi) ==
    IF lo < hi
    THEN LET mid == (lo + hi) \div 2
         IN  IF Uts(a[mid + 1]) < x
             THEN bisect_left_with_descending(a, x, lo, mid)
             ELSE bisect_left_with_descending(a, x, mid + 1, hi)
    ELSE lo

\* Song(track["name"], track["artist"]["name"], album text or "")
Song(track, ignore_album) ==
    [title |-> track.name, artist |-> track.artist,
     album |-> IF ignore_album THEN "" ELSE track.album]

\* a[lo:hi] of Python, lo and hi 0-based
Slice(a, lo, hi) == SubSeq(a, lo + 1, hi)

EmptyCounter == [k \in {} |-> 0]

\* collections.Counter(res): one more for each element, in order
RECURSIVE Counter(_)
Counter(songs) ==
    IF songs = <<>>
    THEN EmptyCounter
    ELSE LET c == Counter(SubSeq(songs, 1, Len(songs) - 1))
             k == songs[Len(songs)]
         IN  [x \in DOMAIN c \cup {k} |->
                 IF x = k
                 THEN (IF k \in DOMAIN c THEN c[k] + 1 ELSE 1)
                 ELSE c[x]]

since_ts(q) == IF q.since = None THEN SinceDefault ELSE q.since

until_ts(q) == IF q.until = None THEN UntilDefault ELSE q.until

get_user_track_counter(q) ==
    LET since_idx == bisect_left_with_descending(q.tracks, since_ts(q), 0, Len(q.tracks))
        until_idx == bisect_left_with_descending(q.tracks, until_ts(q), 0, Len(q.tracks))
        part == Slice(q.tracks, until_idx, since_idx)
    IN  [state |-> "returned", since_idx |-> since_idx, until_idx |-> until_idx,
         count |-> Counter([i \in 1..Len(part) |-> Song(part[i], q.ignore_album)])]

\* every history of at most MaxTracks records, sorted descending by timestamp
Histories ==
    UNION { { h \in [1..n -> { Track(s, t) : s \in Songs, t \in 1..MaxUts }] :
                IsSortedDesc(h) } : n \in 0..MaxTracks }

Bounds == {None} \cup (0..(MaxUts + 1))

NoCounter == [state |-> "pending", since_idx |-> 0, until_idx |-> 0, count |-> EmptyCounter]

GetUserTrackCounter ==
    /\ counter.state = "pending"
    /\ counter' = get_user_track_counter(query)
    /\ UNCHANGED <<query, bisection, cacheVars, resolverVars, catalogVars, historyVars, legacyVars>>

\* datetime(year, month, 1, tzinfo=JST)
datetime(year, month) == [year |-> year, month |-> month]

\* d + relativedelta(months=n)
add_months_same_year(d, n) ==
    [year |-> d.year, month |-> ((d.month - 1 + n) % 12) + 1]

add_months(d, n) ==
    [year |-> d.year + ((d.month - 1 + n) \div 12), month |-> ((d.month - 1 + n) % 12) + 1]

\* d.timestamp() of the first instant of a month, in instants since 1970
timestamp(d) == ((d.year - 1970) * 12 + (d.month - 1)) * MonthLen

\* the range get_user_two_months_track_counter hands to get_user_track_counter:
\* that of get_user_monthly_track_counter, two months long
two_months(year, month) ==
    [since |-> timestamp(datetime(year, month)),
     until |-> timestamp(add_months(datetime(year, month), 2))]

get_user_two_months_track_counter(tracks, year, month, ignore_album) ==
    get_user_track_counter([tracks |-> tracks,
                            since |-> two_months(year, month).since,
                            until |-> two_months(year, month).until,
                            ignore_album |-> ignore_album])

\* (index - 1) * 2 + 1 for index 1 to 6
StartMonths == { (index - 1) * 2 + 1 : index \in 1..6 }

\* the instants from December of the year before to January of the year after
Instants ==
    timestamp(datetime(Year - 1, 12))..(timestamp(datetime(Year + 1, 2)) - 1)

\* every history of at most MaxEvents plays of two songs at these instants,
\* sorted descending by timestamp
YearHistories ==
    UNION { { h \in [1..n -> { Track(s, t) : s \in { Played, [name |-> "B", artist |-> "Y", album |-> "P"] },
                                           t \in Instants }] :
                IsSortedDesc(h) } : n \in 0..MaxEvents }

\* get_user_two_months_track_counter(user, year, month, ignore_album=True)
GetUserTwoMonthsTrackCounter ==
    /\ counter.state = "pending"
    /\ counter' = get_user_two_months_track_counter(query.tracks, query.year, query.month,
                                                    query.ignore_album)
    /\ UNCHANGED <<query, bisection, cacheVars, resolverVars, catalogVars, historyVars, legacyVars>>


----------------------------------------------------------------------------
(* spotify/api.py, spotify/search.py: the selection among the candidates *)

\* A string is written as the sequence of its characters.
\* str.casefold()
Lower(c) ==
    CASE c = "A" -> "a" [] c = "B" -> "b" [] c = "X" -> "x" [] c = "Y" -> "y"
      [] OTHER -> c

casefold(s) == [i \in 1..Len(s) |-> Lower(s[i])]

\* `a in b` of two strings
In(a, b) == \E i \in 0..(Len(b) - Len(a)) : SubSeq(b, i + 1, i + Len(a)) = a

\* a track of the search results; `uri` tells the tracks of one list apart
Candidate(uri, name, artists, album_type, album_artists, total_tracks) ==
    [uri |-> uri, name |-> name, artists |-> artists,
     album |-> [album_type |-> album_type, artists |-> album_artists,
                total_tracks |-> total_tracks]]

\* `return None` of select_proper_track, as a track without uri
NoTrack == Candidate(None, <<>>, <<>>, "", <<>>, 0)

\* spotify/api.py, select_proper_track: the condition of the filter
name_and_artist_equal(track, title, artist) ==
    /\ casefold(track.name) = casefold(title)
    /\ casefold(track.artists[1]) = casefold(artist)

\* select_proper_track: the for loop from index idx (0-based) on, with the
\* values of suspected_ep_idx and max_total reached so far; album_idx is None
\* unless the loop breaks
RECURSIVE scan(_, _, _, _, _)
scan(exact, artist, idx, suspected_ep_idx, max_total) ==
    IF idx = Len(exact)
    THEN [album_idx |-> None, suspected_ep_idx |-> suspected_ep_idx]
    ELSE LET track == exact[idx + 1]
         IN  IF /\ track.album.album_type = "album"
                /\ casefold(track.album.artists[1]) = casefold(artist)
             THEN [album_idx |-> idx, suspected_ep_idx |-> suspected_ep_idx]
             ELSE IF /\ casefold(track.album.artists[1]) = casefold(artist)
                     /\ track.album.total_tracks > max_total
             THEN scan(exact, artist, idx + 1, idx, track.album.total_tracks)
             ELSE scan(exact, artist, idx + 1, suspected_ep_idx, max_total)

\* what select_proper_track returns once the loop is over
chosen_none_unless_qualified(exact, loop) ==
    IF loop.album_idx # None THEN exact[loop.album_idx + 1]
    ELSE IF loop.suspected_ep_idx = 0 THEN NoTrack
    ELSE exact[loop.suspected_ep_idx + 1]

chosen(exact, loop) ==
    IF loop.album_idx # None THEN exact[loop.album_idx + 1]
    ELSE exact[loop.suspected_ep_idx + 1]

select_proper_track(found, title, artist) ==
    LET exact == SelectSeq(found, LAMBDA track : name_and_artist_equal(track, title, artist))
    IN  IF exact # <<>>
        THEN chosen(exact, scan(exact, artist, 0, 0, 0))
        ELSE NoTrack

\* spotify/search.py, find_track_in_spotify.select: title_match
title_match(track, title) ==
    \/ In(casefold(track.name), casefold(title))
    \/ In(casefold(title), casefold(track.name))

\* select: artist_match, over every artist of the track
artist_match(track, artist) ==
    \E i \in 1..Len(track.artists) :
        \/ In(casefold(track.artists[i]), casefold(artist))
        \/ In(casefold(artist), casefold(track.artists[i]))

\* select: album_artist_match, over every artist of the track's album
album_artist_match(track, artist) ==
    \E i \in 1..Len(track.album.artists) :
        \/ In(casefold(track.album.artists[i]), casefold(artist))
        \/ In(casefold(artist), casefold(track.album.artists[i]))

\* select: the for loop over `matched`
RECURSIVE scan_matched(_, _, _, _, _)
scan_matched(matched, artist, idx, suspected_ep_idx, max_total) ==
    IF idx = Len(matched)
    THEN [album_idx |-> None, suspected_ep_idx |-> suspected_ep_idx]
    ELSE LET track == matched[idx + 1]
         IN  IF album_artist_match(track, artist) /\ track.album.album_type = "album"
             THEN [album_idx |-> idx, suspected_ep_idx |-> suspected_ep_idx]
             ELSE IF /\ album_artist_match(track, artist)
                     /\ track.album.total_tracks > max_total
             THEN scan_matched(matched, artist, idx + 1, idx, track.album.total_tracks)
             ELSE scan_matched(matched, artist, idx + 1, suspected_ep_idx, max_total)

\* select: the uri of the track it picks, None without a matching track
select(found, title, artist) ==
    LET matched == SelectSeq(found, LAMBDA track :
                       title_match(track, title) /\ artist_match(track, artist))
    IN  IF matched # <<>>
        THEN chosen(matched, scan_matched(matched, artist, 0, 0, 0)).uri
        ELSE None

\* the candidate lists of the model: every list of at most MaxCands tracks with
\* these names, artists, album types, album artists and track counts
TrackNames == { <<"a">>, <<"a", "b">> }

ArtistLists == { << <<"x">> >>, << <<"y">>, <<"x">> >>, << <<"y">> >> }

AlbumTypes == { "album", "single", "compilation" }

AlbumArtistLists == { << <<"X">> >>, << <<"y">> >> }

CandidateLists ==
    UNION { [1..n -> [name : TrackNames, artists : ArtistLists,
                      album : [album_type : AlbumTypes, artists : AlbumArtistLists,
                               total_tracks : 1..MaxTotal]]] : n \in 0..MaxCands }

\* the list as the search returns it: each track with its own uri
WithUris(list) ==
    [i \in 1..Len(list) |->
        Candidate(i, list[i].name, list[i].artists, list[i].album.album_type,
                  list[i].album.artists, list[i].album.total_tracks)]

NoSong == [fn |-> "none", state |-> "pending", ret |-> NoTrack]

\* select_proper_track(results, title, artist) is called
SelectProperTrack ==
    /\ song.state = "pending"
    /\ song' = [fn |-> "select_proper_track", state |-> "returned",
                ret |-> select_proper_track(results, wanted.title, wanted.artist)]
    /\ UNCHANGED <<wanted, results, sp, catalog, dpc, searched, earlier, before, batch,
                   cacheVars, counterVars, catalogVars, historyVars, legacyVars>>

\* find_track_in_spotify's select(results) is called
Select ==
    /\ song.state = "pending"
    /\ song' = [fn |-> "select", state |-> "returned",
                ret |-> [uri |-> select(results, wanted.title, wanted.artist)]]
    /\ UNCHANGED <<wanted, results, sp, catalog, dpc, searched, earlier, before, batch,
                   cacheVars, counterVars, catalogVars, historyVars, legacyVars>>

----------------------------------------------------------------------------
(* spotify/api.py detect_track, spotify/search.py find_track_in_spotify *)

\* range(3) of automatic_retry
MaxTries == 3

\* the lists of the catalog hold at most MaxItems tracks
MaxItems == 2

\* the resolver is called at most MaxRuns times on one session
MaxRuns == 2

\* the values detect_track gives to sp.language
Languages == { "ja", "en" }

\* the tracks of the catalog: one that equals the request on a single, one that
\* equals it on an album of the artist, one whose longer name only contains the
\* requested title, and one of another artist
CatalogTracks ==
    { [name |-> <<"a">>, artists |-> << <<"x">> >>,
       album |-> [album_type |-> "single", artists |-> << <<"X">> >>, total_tracks |-> 1]],
      [name |-> <<"A">>, artists |-> << <<"X">> >>,
       album |-> [album_type |-> "album", artists |-> << <<"x">> >>, total_tracks |-> 2]],
      [name |-> <<"a", "b">>, artists |-> << <<"x">> >>,
       album |-> [album_type |-> "single", artists |-> << <<"X">> >>, total_tracks |-> 1]],
      [name |-> <<"a">>, artists |-> << <<"y">> >>,
       album |-> [album_type |-> "single", artists |-> << <<"y">> >>, total_tracks |-> 1]] }

\* what sp.search(q, limit=20) does in one language: it raises SpotifyException
\* at every attempt, it answers with a body without tracks.items, or it answers
\* with a list of tracks
Answers ==
    { [kind |-> "SpotifyException", items |-> <<>>],
      [kind |-> "malformed", items |-> <<>>] }
    \cup { [kind |-> "ok", items |-> WithUris(list)] :
             list \in UNION { [1..n -> CatalogTracks] : n \in 0..MaxItems } }

\* what a decorated search call ends with: a list, None, or an exception
Found(items) == [state |-> "returned", none |-> FALSE, items |-> items]

FoundNone == [state |-> "returned", none |-> TRUE, items |-> <<>>]

FoundRaise == [state |-> "AGPException", none |-> TRUE, items |-> <<>>]

\* " ".join((title, artist))
joined(title, artist) == title \o <<" ">> \o artist

\* api.py search_track, the body of the function once sp.search has answered
\* (the query is not empty; the tracks carry no images or available_markets)
search_track(answer) ==
    IF answer.kind = "ok" THEN Found(answer.items) ELSE FoundNone

\* search.py _search_track, the body of the function once sp.search has answered
_search_track(answer) ==
    IF answer.kind = "ok" THEN Found(answer.items) ELSE FoundRaise

\* automatic_retry: attempt n (1-based) of the decorated function fn, where
\* answers[i] is what sp.search does at attempt i
RECURSIVE automatic_retry(_, _, _)
automatic_retry(fn, answers, n) ==
    IF n > MaxTries THEN FoundNone
    ELSE IF answers[n].kind = "SpotifyException"
    THEN automatic_retry(fn, answers, n + 1)
    ELSE IF fn = "search_track" THEN search_track(answers[n])
    ELSE _search_track(answers[n])

\* the attempts of one search call in a language: `fails` transient
\* SpotifyExceptions, then the catalog's answer in that language
Tries(language, fails) ==
    [i \in 1..MaxTries |->
        IF i <= fails THEN [kind |-> "SpotifyException", items |-> <<>>]
        ELSE catalog[language]]

\* sp.language = language
set_language_kept(session, language) ==
    IF session.language = "none" THEN [session EXCEPT !.language = language]
    ELSE session

set_language(session, language) == [session EXCEPT !.language = language]

\* `return None` of the resolver fn
NoMatch(fn) == IF fn = "detect_track" THEN NoTrack ELSE [uri |-> None]

\* the two nested `if` of one locale: neither returned, the function goes on
goes_on_without_list(found, picked) == found.items = <<>>

goes_on(found, picked) == found.items = <<>> \/ picked.uri = None

\* detect_track(sp, title, artist) or find_track_in_spotify(sp, title, artist)
\* is called
Resolve ==
    /\ dpc = "idle"
    /\ Len(earlier) < MaxRuns
    /\ \E fn \in { "detect_track", "find_track_in_spotify" } :
           song' = [fn |-> fn, state |-> "pending", ret |-> NoMatch(fn)]
    /\ dpc' = "ja"
    /\ before' = sp
    /\ UNCHANGED <<wanted, results, sp, catalog, searched, earlier, batch,
                   cacheVars, counterVars, catalogVars, historyVars, legacyVars>>

\* one locale of the resolver: the language is set, the search is made with its
\* retries, the selection runs on a list that is not empty
SearchIn(language) ==
    /\ dpc = language
    /\ \E fails \in 0..(MaxTries - 1) :
        LET session == set_language(sp, language)
            found == automatic_retry(
                         IF song.fn = "detect_track" THEN "search_track"
                         ELSE "_search_track",
                         Tries(session.language, fails), 1)
            picked == IF song.fn = "detect_track"
                      THEN select_proper_track(found.items, wanted.title, wanted.artist)
                      ELSE [uri |-> select(found.items, wanted.title, wanted.artist)]
        IN  /\ sp' = session
            /\ searched' = Append(searched,
                   [language |-> session.language,
                    q |-> joined(wanted.title, wanted.artist)])
            /\ IF found.state = "AGPException"
               THEN /\ song' = [song EXCEPT !.state = "AGPException"]
                    /\ dpc' = "done"
               ELSE IF ~goes_on(found, picked)
               THEN /\ song' = [song EXCEPT !.state = "returned", !.ret = picked]
                    /\ dpc' = "done"
               ELSE IF language = "ja"
               THEN /\ dpc' = "en"
                    /\ UNCHANGED song
               ELSE /\ song' = [song EXCEPT !.state = "returned", !.ret = NoMatch(song.fn)]
                    /\ dpc' = "done"
    /\ UNCHANGED <<wanted, results, catalog, earlier, before, batch, cacheVars,
                 counterVars, catalogVars, historyVars, legacyVars>>

\* the caller takes the result; the session stays as the call left it
Resolved ==
    /\ dpc = "done"
    /\ song.state = "returned"
    /\ earlier' = Append(earlier, song)
    /\ song' = NoSong
    /\ searched' = <<>>
    /\ dpc' = "idle"
    /\ UNCHANGED <<wanted, results, sp, catalog, before, batch, cacheVars,
                   counterVars, catalogVars, historyVars, legacyVars>>

----------------------------------------------------------------------------
(* lastfm/misc.py bisect_left_with_descending, one pass of its loop at a time *)

\* the lists of the bisection hold at most MaxLen records
MaxLen == 8

\* their timestamps are 1..MaxKey
MaxKey == 2

\* no bisection is running
NoBisection == [a |-> <<>>, x |-> 0, lo |-> 0, hi |-> 0, evaluations |-> 0, pc |-> "idle"]

\* mid = (lo + hi) // 2
midpoint_first(lo, hi) == lo

midpoint(lo, hi) == (lo + hi) \div 2

\* one pass of `while lo < hi` with key: key(a[mid]) is evaluated once, then
\* hi = mid or lo = mid + 1
BisectPass ==
    /\ bisection.pc = "loop"
    /\ bisection.lo < bisection.hi
    /\ LET mid == midpoint(bisection.lo, bisection.hi)
       IN  bisection' =
               IF Uts(bisection.a[mid + 1]) < bisection.x
               THEN [bisection EXCEPT !.hi = mid, !.evaluations = @ + 1]
               ELSE [bisection EXCEPT !.lo = mid + 1, !.evaluations = @ + 1]
    /\ UNCHANGED <<query, counter, cacheVars, resolverVars, catalogVars, historyVars, legacyVars>>

\* `return lo` when the loop condition fails
BisectReturn ==
    /\ bisection.pc = "loop"
    /\ ~(bisection.lo < bisection.hi)
    /\ bisection' = [bisection EXCEPT !.pc = "returned"]
    /\ UNCHANGED <<query, counter, cacheVars, resolverVars, catalogVars, historyVars, legacyVars>>

----------------------------------------------------------------------------
(* automatic_retry of spotify/api.py, spotify/utils.py and spotify.py, one
   invocation of the decorated function at a time *)

\* range(5) of automatic_retry in spotify.py
LegacyMaxTries == 5

\* the decorated function is invoked at most MaxInvocations times in the model
MaxInvocations == 6

\* the modules that define the decorator
RetryModules == { "spotify/api.py", "spotify/utils.py", "spotify.py" }

\* what one invocation of the decorated function does: it returns, it raises
\* SpotifyException, or it raises another exception
Outcomes == { "value", "SpotifyException", "Exception" }

\* no decorated call is running
NoRetry ==
    [module |-> "none", fn |-> "none", outcomes |-> <<>>, calls |-> 0, state |-> "idle",
     value |-> None]

\* what sp.playlist_items does at one request: it answers with the page, it
\* raises SpotifyException for an invalid playlist id, or it raises another
\* SpotifyException
PlaylistAnswers == { "items", "Invalid playlist Id", "SpotifyException" }

\* spotify/api.py playlist_items, the undecorated function at invocation i: the
\* page, or None from the `return` of an invalid id and from the end of the
\* except block otherwise
playlist_items(answer, i) ==
    IF answer = "items" THEN [outcome |-> "value", value |-> i]
    ELSE [outcome |-> "value", value |-> None]

\* spotify/playlist.py _playlist_items, the undecorated function at invocation
\* i: the page, AGPException for an invalid id, or the SpotifyException raised
\* again
_playlist_items(answer, i) ==
    IF answer = "items" THEN [outcome |-> "value", value |-> i]
    ELSE IF answer = "Invalid playlist Id" THEN [outcome |-> "Exception", value |-> None]
    ELSE [outcome |-> "SpotifyException", value |-> None]

\* func(*args, **kwargs) at invocation i: for a function that is not modelled
\* further the outcome is given and its value is i
invoked(fn, answer, i) ==
    IF fn = "playlist_items" THEN playlist_items(answer, i)
    ELSE IF fn = "_playlist_items" THEN _playlist_items(answer, i)
    ELSE [outcome |-> answer, value |-> i]

\* `for _ in range(3)`, `for _ in range(5)` in spotify.py
tries(module) == IF module = "spotify.py" THEN LegacyMaxTries ELSE MaxTries

\* `except SpotifyException as err`
caught_any(outcome) == outcome # "value"

caught(outcome) == outcome = "SpotifyException"

\* one pass of the loop: func(*args, **kwargs) is invoked; its value is
\* returned, its SpotifyException is logged and slept on, any other exception
\* leaves the decorator.  The value of invocation i is i.
RetryInvoke ==
    /\ retry.state = "running"
    /\ retry.calls < tries(retry.module)
    /\ LET i == retry.calls + 1
           r == invoked(retry.fn, retry.outcomes[i], i)
       IN  retry' =
               IF r.outcome = "value"
               THEN [retry EXCEPT !.calls = i, !.state = "returned", !.value = r.value]
               ELSE IF caught(r.outcome)
               THEN [retry EXCEPT !.calls = i]
               ELSE [retry EXCEPT !.calls = i, !.state = "raised"]
    /\ UNCHANGED <<cacheVars, counterVars, resolverVars, chunks, generation, historyVars, legacyVars>>

\* the loop is over: the failure is logged and inner returns None
RetryGiveUp ==
    /\ retry.state = "running"
    /\ retry.calls = tries(retry.module)
    /\ retry' = [retry EXCEPT !.state = "returned", !.value = None]
    /\ UNCHANGED <<cacheVars, counterVars, resolverVars, chunks, generation, historyVars, legacyVars>>

----------------------------------------------------------------------------
(* The batch operations of spotify/api.py, spotify/ft.py and
   spotify/playlist.py: fetch_audio_features_all, playlist_add_songs_all,
   playlist_remove_items_all / playlist_remove_songs_all, one catalog call at
   a time *)

\* ids[fetched : fetched + 100]
SliceSize == 100

\* the lengths of the id lists of the model: around one, two and three slices
Lengths == { 0, 1, 99, 100, 101, 199, 200, 201 }

\* `{}` in place of a feature record the catalog gave as None
NoFeatures == 0

\* the loops of the three operations
BatchOps == { "audio_features", "playlist_add_items", "playlist_remove_items" }

\* no batch operation is running
NoChunks ==
    [op |-> "none", ids |-> <<>>, done |-> 0, failed |-> 0, fts |-> <<>>,
     sent |-> <<>>, state |-> "idle", ret |-> <<>>]

\* ids[done : done + 100]
slice_short(ids, done) ==
    SubSeq(ids, done + 1,
           IF done + SliceSize - 1 < Len(ids) THEN done + SliceSize - 1 ELSE Len(ids))

slice(ids, done) ==
    SubSeq(ids, done + 1,
           IF done + SliceSize < Len(ids) THEN done + SliceSize ELSE Len(ids))

\* [ft if ft is not None else {} for ft in fts]
without_none(fts) ==
    [i \in 1..Len(fts) |-> IF fts[i] = None THEN NoFeatures ELSE fts[i]]

\* fetch_audio_features_all: `return []` when a slice could not be fetched
given_up_with_fetched(fts) == without_none(fts)

given_up(fts) == <<>>

\* what sp.audio_features gives for a slice: the record of each id (here the
\* id), or None for every id the catalog has no features of
features(ids, known) == [i \in 1..Len(ids) |-> IF known THEN ids[i] ELSE None]

\* One pass of `while done < len(ids)`, up to the answer to one catalog call
\* for the slice: the decorated call sends the slice; an answer ends it with
\* its value, a SpotifyException leads to the next attempt on the same slice,
\* and the third SpotifyException ends it with None.  fetch_audio_features_all
\* returns [] on None; the playlist loops go on with the next slice.
\* sent: the catalog calls made, each with the offset of its slice.
ChunkSend ==
    /\ chunks.state = "loop"
    /\ chunks.done < Len(chunks.ids)
    /\ LET ids == slice(chunks.ids, chunks.done)
           called == [chunks EXCEPT
                         !.sent = Append(@, [offset |-> chunks.done, ids |-> ids])]
       IN  \E answer \in { "value", "None in value", "SpotifyException" } :
               chunks' =
                   IF ~caught(answer)
                   THEN [called EXCEPT
                            !.done = @ + SliceSize,
                            !.failed = 0,
                            !.fts = IF chunks.op = "audio_features"
                                    THEN @ \o features(ids, answer = "value")
                                    ELSE @]
                   ELSE IF chunks.failed + 1 < MaxTries
                   THEN [called EXCEPT !.failed = @ + 1]
                   ELSE IF chunks.op = "audio_features"
                   THEN [called EXCEPT !.failed = @ + 1, !.state = "returned",
                                       !.ret = given_up(chunks.fts)]
                   ELSE [called EXCEPT !.done = @ + SliceSize, !.failed = 0]
    /\ UNCHANGED <<cacheVars, counterVars, resolverVars, retry, generation, historyVars, legacyVars>>

\* the loop condition fails: fetch_audio_features_all returns the features,
\* the playlist loops return
ChunkReturn ==
    /\ chunks.state = "loop"
    /\ ~(chunks.done < Len(chunks.ids))
    /\ chunks' = [chunks EXCEPT !.state = "returned", !.ret = without_none(chunks.fts)]
    /\ UNCHANGED <<cacheVars, counterVars, resolverVars, retry, generation, historyVars, legacyVars>>

----------------------------------------------------------------------------
(* lastfm-utils/playlist.py: calculate_top_tracks on the ascending history *)

\* longest history handed to calculate_top_tracks
MaxScrobbles == 3

\* datetime.fromtimestamp(t), to the month
fromtimestamp(t) ==
    [year |-> 1970 + ((t \div MonthLen) \div 12), month |-> ((t \div MonthLen) % 12) + 1]

\* bisect.bisect_left(a, x) on an ascending list
RECURSIVE bisect_left(_, _, _, _)
bisect_left(a, x, lo, hi) ==
    IF lo < hi
    THEN LET mid == (lo + hi) \div 2
         IN  IF a[mid + 1] < x
             THEN bisect_left(a, x, mid + 1, hi)
             ELSE bisect_left(a, x, lo, mid)
    ELSE lo

\* count_top_tracks(scrobbles, {}): Counter of (title, artist)
count_top_tracks(scrobbles) ==
    Counter([i \in DOMAIN scrobbles |-> <<scrobbles[i].title, scrobbles[i].artist>>])

\* ref_time = datetime(end.year, (end.month - (end.month % 2) + 1) % 12, 1)
ref_time_of(end) == datetime(end.year, ((end.month - (end.month % 2)) + 1) % 12)

\* count = (ref_time.month - start.month) // 2 + (ref_time.year - start.year) * 6
count_of(ref_time, start) ==
    ((ref_time.month - start.month) \div 2) + ((ref_time.year - start.year) * 6)

\* one pass of `for num in range(count, 0, -1)`
season(scrobbles, ref_time, num) ==
    LET since_ == timestamp(add_months(ref_time, 0 - (2 * num)))
        until_ == timestamp(add_months(ref_time, 0 - (2 * (num - 1)))) - 1
        times == [i \in DOMAIN scrobbles |-> scrobbles[i].time]
        start == bisect_left(times, since_, 0, Len(times))
        end == bisect_left(times, until_, 0, Len(times))
    IN  [since |-> since_, until |-> until_, start |-> start, end |-> end,
         counter |-> count_top_tracks(Slice(scrobbles, start, end))]

calculate_top_tracks(scrobbles) ==
    LET start == fromtimestamp(scrobbles[1].time)
        end == fromtimestamp(scrobbles[Len(scrobbles)].time)
        ref_time == ref_time_of(end)
        count == count_of(ref_time, start)
        passes == IF count > 0 THEN count ELSE 0
    IN  [scrobbles |-> scrobbles, state |-> "returned", ref_time |-> ref_time,
         count |-> count,
         first |-> add_months(ref_time, 0 - (2 * count)),
         windows |-> [k \in 1..passes |-> season(scrobbles, ref_time, count + 1 - k)]]

NoSeasons ==
    [scrobbles |-> <<>>, state |-> "idle", ref_time |-> datetime(Year, 1), count |-> 0,
     first |-> datetime(Year, 1), windows |-> <<>>]

\* the instants from November of the year before to December of the year
LegacyInstants ==
    timestamp(datetime(Year - 1, 11))..(timestamp(datetime(Year + 1, 1)) - 1)

\* every non-empty history of at most MaxScrobbles plays at these instants, in
\* the ascending order of the CSV file
LegacyHistories ==
    UNION { { h \in [1..n -> { [title |-> "A", artist |-> "X", time |-> t] :
                                 t \in LegacyInstants }] :
                \A i, j \in 1..n : i < j => h[i].time <= h[j].time }
            : n \in 1..MaxScrobbles }

CalculateTopTracks ==
    /\ seasons.state = "called"
    /\ seasons' = calculate_top_tracks(seasons.scrobbles)
    /\ UNCHANGED <<cacheVars, counterVars, resolverVars, catalogVars, historyVars>>

----------------------------------------------------------------------------
(* top_track.py: the loop of generate_bimestrial_top_track_playlist *)

\* the loop passes at most MaxPeriods periods
MaxPeriods == 3

\* fetch_two_months_top_tracks finds at most MaxFound tracks
MaxFound == 2

\* the tracks of a playlist that exists before the loop
OldTracks == {"old"}

\* a playlist of the catalog; `details` tells whether playlist_change_details
\* or user_playlist_create has set its description in this run
NoPlaylist == [exists |-> FALSE, tracks |-> {}, details |-> "none"]

OldPlaylist == [exists |-> TRUE, tracks |-> OldTracks, details |-> "old"]

\* the uris fetch_two_months_top_tracks returns when it finds k tracks
Uris(k) == { <<"uri", j>> : j \in 1..k }

NoGeneration ==
    [update_old |-> FALSE, found |-> <<>>, pls |-> {}, playlists |-> <<>>, at |-> 0]

\* `if target_pl is None: target_pl = sp.user_playlist_create(...)`
created(target, uris) ==
    IF target.exists THEN target ELSE [exists |-> TRUE, tracks |-> {}, details |-> "new"]

\* one pass of `while since < datetime.now(tz=JST)`, for the period `at`
GeneratePeriod ==
    /\ generation.at >= 1
    /\ generation.at <= Len(generation.found)
    /\ LET at == generation.at
           listed == at \in generation.pls
           uris == Uris(generation.found[at])
           \* update_old: playlist_remove_songs_all and playlist_change_details
           \* of the listed playlist
           emptied == IF generation.update_old /\ listed
                      THEN [generation.playlists[at] EXCEPT !.tracks = {},
                                                            !.details = "new"]
                      ELSE generation.playlists[at]
           \* target_pl is None unless the loop over pls found the playlist
           target == IF generation.update_old /\ listed THEN emptied ELSE NoPlaylist
           made == created(target, uris)
           filled == IF uris = {} THEN made
                     ELSE [made EXCEPT !.tracks = @ \cup uris]
       IN  generation' =
               IF ~generation.update_old /\ listed
               THEN [generation EXCEPT !.at = at + 1]
               ELSE [generation EXCEPT !.at = at + 1, !.playlists[at] = filled]
    /\ UNCHANGED <<cacheVars, counterVars, resolverVars, retry, chunks, historyVars, legacyVars>>

\* the loop is over
GenerateReturn ==
    /\ generation.at = Len(generation.found) + 1
    /\ generation' = [generation EXCEPT !.at = 0]
    /\ UNCHANGED <<cacheVars, counterVars, resolverVars, retry, chunks, historyVars, legacyVars>>

----------------------------------------------------------------------------
(* core.py generate_bimestrial_top_track_playlist and top_track.py
   fetch_two_months_top_tracks: the loop over counter.most_common() *)

\* counter.most_common() holds at most MaxBatch tracks
MaxBatch == 3

\* the requested number of tracks (count of core.py, TRACK_COUNT of
\* top_track.py) is at most MaxCount
MaxCount == 2

\* no loop is running
NoBatch ==
    [caller |-> "none", tracks |-> 0, count |-> 0, i |-> 0, song_ids |-> <<>>,
     uris |-> {}, state |-> "idle"]

\* the resolver the loop of each module calls
resolver(caller) ==
    IF caller = "core" THEN "detect_track" ELSE "find_track_in_spotify"

\* len(song_ids) of core.py, len(uris) of top_track.py
collected(b) ==
    IF b.caller = "core" THEN Len(b.song_ids) ELSE Cardinality(b.uris)

\* song_ids.append(song["id"]) of core.py, uris.add(uri) of top_track.py
added(b, uri) ==
    IF b.caller = "core" THEN [b EXCEPT !.song_ids = Append(@, uri)]
    ELSE [b EXCEPT !.uris = @ \cup { uri }]

\* the counter is there and not empty: song_ids = [] / uris = set()
BatchCall ==
    /\ batch.state = "idle"
    /\ dpc = "idle"
    /\ \E caller \in { "core", "top_track" }, tracks \in 1..MaxBatch,
          count \in 1..MaxCount :
           batch' = [caller |-> caller, tracks |-> tracks, count |-> count,
                     i |-> 0, song_ids |-> <<>>, uris |-> {}, state |-> "loop"]
    /\ UNCHANGED <<wanted, results, song, sp, catalog, dpc, searched, earlier,
                   before, cacheVars, counterVars, catalogVars, historyVars, legacyVars>>

\* `for track, _ in counter.most_common()`: the next most-played track is
\* handed to the resolver; the catalog answers for that track
BatchTrack ==
    /\ batch.state = "loop"
    /\ dpc = "idle"
    /\ batch.i < batch.tracks
    /\ batch' = [batch EXCEPT !.i = @ + 1]
    /\ catalog' \in [Languages -> Answers]
    /\ song' = [fn |-> resolver(batch.caller), state |-> "pending",
                ret |-> NoMatch(resolver(batch.caller))]
    /\ dpc' = "ja"
    /\ before' = sp
    /\ UNCHANGED <<wanted, results, sp, searched, earlier, cacheVars, counterVars, catalogVars, historyVars, legacyVars>>

\* the resolver has returned: the id is kept or the track is skipped, and the
\* loop ends at `count` ids or with the last track
BatchTake ==
    /\ batch.state = "loop"
    /\ dpc = "done"
    /\ song.state = "returned"
    /\ LET b == IF song.ret.uri # None THEN added(batch, song.ret.uri) ELSE batch
       IN  batch' = [b EXCEPT !.state =
                        IF collected(b) = b.count \/ b.i = b.tracks
                        THEN "done" ELSE "loop"]
    /\ song' = NoSong
    /\ searched' = <<>>
    /\ dpc' = "idle"
    /\ UNCHANGED <<wanted, results, sp, catalog, earlier, before, cacheVars,
                   counterVars, catalogVars, historyVars, legacyVars>>

\* the resolver has raised: nothing in the loop catches the exception
BatchRaise ==
    /\ batch.state = "loop"
    /\ dpc = "done"
    /\ song.state = "AGPException"
    /\ batch' = [batch EXCEPT !.state = "AGPException"]
    /\ song' = NoSong
    /\ searched' = <<>>
    /\ dpc' = "idle"
    /\ UNCHANGED <<wanted, results, sp, catalog, earlier, before, cacheVars,
                   counterVars, catalogVars, historyVars, legacyVars>>

----------------------------------------------------------------------------
(* The scrobble service (environment): user.getrecenttracks *)

\* the records with from <= uts, newest first
RecentTracks(from) == SelectSeq(remote, LAMBDA t : Uts(t) >= from)

\* recenttracks.@attr.totalPages
TotalPages(from) ==
    (Len(RecentTracks(from)) + PageLimit - 1) \div PageLimit

\* recenttracks.track of page `page`
Page(from, page) ==
    LET all == RecentTracks(from)
        last == IF page * PageLimit < Len(all) THEN page * PageLimit ELSE Len(all)
    IN  SubSeq(all, (page - 1) * PageLimit + 1, last)

\* generate_tracks_url(user, page, since): the request for one page (page=1 when
\* the caller names none)
generate_tracks_url(page, from) ==
    [method |-> "user.getrecenttracks", limit |-> PageLimit, page |-> page,
     from |-> from]

\* what an HTTP-successful session.get can bring back: a response with the
\* expected envelope around `body`, or one without the expected keys
Responses(body, nothing) ==
    { [kind |-> "ok", body |-> body],
      [kind |-> "invalid", body |-> nothing] }

NoResponse(nothing) == [kind |-> "none", body |-> nothing]

----------------------------------------------------------------------------
(* requests.py: _fetch *)

\* what session.get brings back at the successive passes of one _fetch loop:
\* `fails` transport/HTTP errors, then `answer`
Attempts(fails, answer, nothing) ==
    [i \in 1..MaxAttempts |->
        IF i <= fails THEN [kind |-> "error", body |-> nothing] ELSE answer]

\* no _fetch call has ended yet
NoReq == [what |-> "none", page |-> 0, n |-> 0, ret |-> "pending", val |-> 0,
          last |-> NoResponse(0)]

\* The loop after `n` passes.  responses[i] is what pass i receives and
\* extracted[i] what coro gives for it.  An error leads to the next pass; any
\* other response is handed to coro, whose outcome (a value, or an exception)
\* is the call's.  After MaxAttempts passes the call returns None.
\* ret: "value", "None" (gave up), "raise"; n: passes made; last: the response
\* of the last pass.
RECURSIVE _fetch_gives_up(_, _, _)
_fetch_gives_up(responses, extracted, n) ==
    IF n = MaxAttempts - 1
    THEN [n |-> n, ret |-> "None", val |-> responses[n].body, last |-> responses[n]]
    ELSE IF responses[n + 1].kind = "error"
    THEN _fetch_gives_up(responses, extracted, n + 1)
    ELSE [n |-> n + 1, ret |-> extracted[n + 1].ret, val |-> extracted[n + 1].val,
          last |-> responses[n + 1]]

RECURSIVE _fetch(_, _, _)
_fetch(responses, extracted, n) ==
    IF n = MaxAttempts
    THEN [n |-> n, ret |-> "None", val |-> responses[n].body, last |-> responses[n]]
    ELSE IF responses[n + 1].kind = "error"
    THEN _fetch(responses, extracted, n + 1)
    ELSE [n |-> n + 1, ret |-> extracted[n + 1].ret, val |-> extracted[n + 1].val,
          last |-> responses[n + 1]]

\* the record of an ended _fetch call: what it asked for (and of which page of
\* user.getrecenttracks, 0 for user.getinfo) and how it ended
Req(what, page, r) ==
    [what |-> what, page |-> page, n |-> r.n, ret |-> r.ret, val |-> r.val,
     last |-> r.last]

----------------------------------------------------------------------------
(* lastfm/api.py: the extractors *)

\* "@attr" in track and "nowplaying" in track["@attr"]
\* and track["@attr"]["nowplaying"] == "true"
now_playing(track) == "nowplaying" \in DOMAIN track /\ track.nowplaying = "true"

\* extract_tracks: the track list without the entries marked as playing now, or
\* ClientError when the envelope lacks its keys
extract_tracks(resp) ==
    IF resp.kind = "ok"
    THEN [ret |-> "value", val |-> SelectSeq(resp.body, LAMBDA track : ~now_playing(track))]
    ELSE [ret |-> "raise", val |-> <<>>]

\* extract_tracks_total_pages
extract_tracks_total_pages(resp) ==
    IF resp.kind = "ok" THEN [ret |-> "value", val |-> resp.body]
    ELSE [ret |-> "raise", val |-> 0]

\* extract_user_info
extract_user_info(resp) ==
    IF resp.kind = "ok" THEN [ret |-> "value", val |-> resp.body]
    ELSE [ret |-> "raise", val |-> 0]

\* recursively_remove_elements on one record: drops "image" and "streamable"
remove_elements(t) ==
    [k \in (DOMAIN t) \ {"image", "streamable"} |-> t[k]]

recursively_remove_elements(tracks) ==
    [i \in 1..Len(tracks) |-> remove_elements(tracks[i])]

----------------------------------------------------------------------------
(* The cache file *)

NoFile == [exists |-> FALSE, torn |-> FALSE, data |-> <<>>]

\* open(path, "w"): the file exists and is empty until json.dump has written
Truncated == [exists |-> TRUE, torn |-> TRUE, data |-> <<>>]

File(data) == [exists |-> TRUE, torn |-> FALSE, data |-> data]

NoResult == [kind |-> "none", value |-> <<>>]

Raise(kind) == [kind |-> kind, value |-> <<>>]

\* "date" in cache[0] and "uts" in cache[0]["date"]
HasDate(track) == "uts" \in DOMAIN track

\* since = int(cache[0]["date"]["uts"]) + 1
since_of_cache_inclusive(data) == Uts(data[1])

since_of_cache(data) == Uts(data[1]) + 1

----------------------------------------------------------------------------
(* lastfm/api.py: get_user_history and fetch_tracks_all, step by step *)

NewTask == [st |-> "wait", ret |-> "pending", val |-> <<>>]

\* the user record of user.getinfo
UserInfo == 1

\* get_user_history: `if update: await fetch_tracks_all(user, refetch)`
first_step_refetch_updates(update, refetch) ==
    IF update \/ refetch THEN "user_info" ELSE "read"

first_step(update, refetch) ==
    IF update THEN "user_info" ELSE "read"

NoTasks == <<>>

Finish(outcome) ==
    /\ result' = outcome
    /\ pc' = "done"

\* the user plays a track, at any moment: the service records it on top of the
\* history, one second or more after the one before
Scrobble ==
    /\ Len(remote) < MaxRemote
    /\ remote' = <<RawTrack(Played, Len(remote) + 1)>> \o remote
    /\ UNCHANGED <<cache, pc, op, prev, remote0, since, req, max_pages, tasks,
                   res, asked, result, updates, counterVars,
                   resolverVars, catalogVars, historyVars, legacyVars>>

\* get_user_history(user, update, refetch) is called
Call ==
    /\ pc = "idle"
    /\ \E update \in BOOLEAN, refetch \in BOOLEAN :
         /\ op' = [update |-> update, refetch |-> refetch]
         /\ pc' = first_step(update, refetch)
    /\ prev' = cache
    /\ remote0' = remote
    /\ UNCHANGED <<remote, cache, since, req, max_pages, tasks, res, asked, result,
                   updates, counterVars,
                   resolverVars, catalogVars, historyVars, legacyVars>>

\* fetch_tracks_all: fetch_user_info(user), the whole fetch_one call
FetchUserInfo ==
    /\ pc = "user_info"
    /\ \E fails \in 0..MaxAttempts, answer \in Responses(UserInfo, 0) :
         LET responses == Attempts(fails, answer, 0)
             r == _fetch(responses,
                         [i \in DOMAIN responses |-> extract_user_info(responses[i])],
                         0)
         IN  /\ req' = Req("user_info", 0, r)
             /\ IF r.ret = "raise" THEN Finish(Raise("ClientError"))
                ELSE IF r.ret = "None" THEN pc' = "read" /\ UNCHANGED result
                ELSE pc' = "load_since" /\ UNCHANGED result
    /\ asked' = asked \cup {"user_info"}
    /\ UNCHANGED <<remote, cache, op, prev, remote0, since, max_pages, tasks, res,
                   updates, counterVars,
                   resolverVars, catalogVars, historyVars, legacyVars>>

\* fetch_tracks_all: the lower bound of the fetch, from the cache file's first record
LoadSince ==
    /\ pc = "load_since"
    /\ IF ~op.refetch /\ cache.exists
       THEN IF cache.torn
            THEN Finish(Raise("JSONDecodeError")) /\ UNCHANGED since
            ELSE IF cache.data = <<>>
            THEN Finish(Raise("IndexError")) /\ UNCHANGED since
            ELSE IF HasDate(cache.data[1])
            THEN /\ since' = since_of_cache(cache.data)
                 /\ pc' = "total_pages"
                 /\ UNCHANGED result
            ELSE pc' = "read" /\ UNCHANGED <<since, result>>
       ELSE /\ since' = NoBound
            /\ pc' = "total_pages"
            /\ UNCHANGED result
    /\ UNCHANGED <<remote, cache, op, prev, remote0, req, max_pages, tasks, res,
                   asked, updates, counterVars,
                   resolverVars, catalogVars, historyVars, legacyVars>>

\* fetch_tracks: max_pages = fetch_one(extract_tracks_total_pages, url of page 1);
\* with None it returns no tracks, else it creates one task per page
FetchTotalPages ==
    /\ pc = "total_pages"
    /\ \E fails \in 0..MaxAttempts, answer \in Responses(TotalPages(since), 0) :
         LET responses == Attempts(fails, answer, 0)
             r == _fetch(responses,
                         [i \in DOMAIN responses |->
                             extract_tracks_total_pages(responses[i])],
                         0)
         IN  /\ req' = Req("total_pages", 1, r)
             /\ IF r.ret = "raise"
                THEN Finish(Raise("ClientError")) /\ UNCHANGED <<max_pages, tasks, res>>
                ELSE IF r.ret = "None"
                THEN /\ res' = recursively_remove_elements(<<>>)
                     /\ pc' = "extend"
                     /\ UNCHANGED <<result, max_pages, tasks>>
                ELSE /\ max_pages' = r.val
                     /\ tasks' = [p \in 1..r.val |-> NewTask]
                     /\ pc' = "pages"
                     /\ UNCHANGED <<result, res>>
    /\ asked' = asked \cup {"total_pages"}
    /\ UNCHANGED <<remote, cache, op, prev, remote0, since, updates, counterVars,
                   resolverVars, catalogVars, historyVars, legacyVars>>

\* tasks inside `async with semaphore`
Running == { p \in DOMAIN tasks : tasks[p].st = "run" }

\* Semaphore(limit).locked(): no slot is left for one more task
locked_beyond_limit(running) == Cardinality(running) > Limit

locked(running) == Cardinality(running) >= Limit

\* _fetch_with_semaphore: the task acquires the semaphore (waiters wake in order)
Acquire(p) ==
    /\ pc = "pages"
    /\ tasks[p].st = "wait"
    /\ \A q \in 1..(p - 1) : tasks[q].st # "wait"
    /\ ~locked(Running)
    /\ tasks' = [tasks EXCEPT ![p].st = "run"]
    /\ UNCHANGED <<remote, cache, pc, op, prev, remote0, since, req, max_pages, res,
                   asked, result, updates, counterVars,
                   resolverVars, catalogVars, historyVars, legacyVars>>

\* _fetch_with_semaphore: the task's _fetch call; the semaphore is released
\* when _fetch returns or raises.  An exception of the task ends gather(*tasks),
\* fetch_all, fetch_tracks and the call with it.
PageAttempt(p) ==
    /\ pc = "pages"
    /\ tasks[p].st = "run"
    /\ \E fails \in 0..MaxAttempts, answer \in Responses(Page(since, p), <<>>) :
         LET responses == Attempts(fails, answer, <<>>)
             r == _fetch(responses,
                         [i \in DOMAIN responses |-> extract_tracks(responses[i])],
                         0)
         IN  /\ req' = Req("page", p, r)
             /\ tasks' = [tasks EXCEPT ![p] =
                            [st |-> "end", ret |-> r.ret, val |-> r.val]]
             /\ abandoned' = (abandoned \/ r.ret = "None")
             /\ IF r.ret = "raise"
                THEN Finish(Raise("ClientError"))
                ELSE UNCHANGED <<pc, result>>
    /\ asked' = asked \cup {"page"}
    /\ UNCHANGED <<remote, cache, op, prev, remote0, since, max_pages, res,
                   updates, counterVars,
                   resolverVars, catalogVars, legacyVars>>

\* fetch_tracks: how many times the running call has requested `url` so far: the
\* request for max_pages, and the tasks that have passed the semaphore
Requested(url) ==
    (IF "total_pages" \in asked /\ generate_tracks_url(1, since) = url THEN 1 ELSE 0)
    + Cardinality({ p \in DOMAIN tasks :
                      tasks[p].st # "wait" /\ generate_tracks_url(p, since) = url })

\* fetch_tracks: tracks.extend(res if res is not None else []) for each response
Extended_newest_last(responses) ==
    Concat([p \in DOMAIN responses |->
               LET q == Len(responses) + 1 - p
               IN  IF responses[q].ret = "value" THEN responses[q].val ELSE <<>>])

Extended(responses) ==
    Concat([p \in DOMAIN responses |->
               IF responses[p].ret = "value" THEN responses[p].val ELSE <<>>])

\* fetch_all: gather(*tasks) returns the responses in the order of the urls
Gather ==
    /\ pc = "pages"
    /\ \A p \in DOMAIN tasks : tasks[p].ret \in {"value", "None"}
    /\ res' = recursively_remove_elements(Extended(tasks))
    /\ pc' = "extend"
    /\ UNCHANGED <<remote, cache, op, prev, remote0, since, req, max_pages, tasks,
                   asked, result, updates, counterVars,
                   resolverVars, catalogVars, historyVars, legacyVars>>

\* fetch_tracks_all: res.extend(json.load(f)) when the file exists and not refetch
\* `if not refetch: if os.path.exists(path):` before res.extend(json.load(f))
keeps_cache_on_refetch(refetch, c) == c.exists

keeps_cache(refetch, c) == ~refetch /\ c.exists

Extend ==
    /\ pc = "extend"
    /\ IF keeps_cache(op.refetch, cache)
       THEN IF cache.torn
            THEN Finish(Raise("JSONDecodeError")) /\ UNCHANGED res
            ELSE /\ res' = res \o cache.data
                 /\ pc' = "open"
                 /\ UNCHANGED result
       ELSE /\ pc' = "open"
            /\ UNCHANGED <<res, result>>
    /\ UNCHANGED <<remote, cache, op, prev, remote0, since, req, max_pages, tasks,
                   asked, updates, counterVars,
                   resolverVars, catalogVars, historyVars, legacyVars>>

\* fetch_tracks_all: open(path, "w")
Open ==
    /\ pc = "open"
    /\ cache' = Truncated
    /\ pc' = "dump"
    /\ UNCHANGED <<remote, op, prev, remote0, since, req, max_pages, tasks, res, asked,
                   result, updates, counterVars,
                   resolverVars, catalogVars, historyVars, legacyVars>>

\* fetch_tracks_all: json.dump(res, f) and the file is closed
Dump ==
    /\ pc = "dump"
    /\ cache' = File(res)
    /\ pc' = "read"
    /\ UNCHANGED <<remote, op, prev, remote0, since, req, max_pages, tasks, res, asked,
                   result, updates, counterVars,
                   resolverVars, catalogVars, historyVars, legacyVars>>

\* get_user_history: the cache file's content, or AGPLException without a file
read_cache_or_empty(c) ==
    IF c.exists
    THEN IF c.torn THEN Raise("JSONDecodeError")
         ELSE [kind |-> "return", value |-> c.data]
    ELSE [kind |-> "return", value |-> <<>>]

read_cache(c) ==
    IF c.exists
    THEN IF c.torn THEN Raise("JSONDecodeError")
         ELSE [kind |-> "return", value |-> c.data]
    ELSE Raise("AGPLException")

\* lastfm/core.py, get_user_track_counter(user, since, until) around
\* get_user_history: an exception of get_user_history goes on to the caller,
\* `tracks is None` gives None, a history gives its Counter
track_counter(outcome, since_, until_) ==
    IF outcome.kind = "None" THEN [kind |-> "None", value |-> EmptyCounter]
    ELSE IF outcome.kind # "return" THEN [kind |-> outcome.kind, value |-> EmptyCounter]
    ELSE [kind |-> "Counter",
          value |-> get_user_track_counter(
                        [tracks |-> outcome.value, since |-> since_, until |-> until_,
                         ignore_album |-> FALSE]).count]

Read ==
    /\ pc = "read"
    /\ Finish(read_cache(cache))
    /\ UNCHANGED <<remote, cache, op, prev, remote0, since, req, max_pages, tasks, res,
                   asked, updates, counterVars,
                   resolverVars, catalogVars, historyVars, legacyVars>>

\* the call is over: its locals are gone
Return ==
    /\ pc = "done"
    /\ pc' = "idle"
    /\ op' = [update |-> FALSE, refetch |-> FALSE]
    /\ prev' = NoFile
    /\ remote0' = <<>>
    /\ since' = NoBound
    /\ req' = NoReq
    /\ max_pages' = 0
    /\ tasks' = NoTasks
    /\ res' = <<>>
    /\ asked' = {}
    /\ result' = NoResult
    /\ UNCHANGED <<remote, cache, updates, counterVars,
                   resolverVars, catalogVars, historyVars, legacyVars>>

----------------------------------------------------------------------------
(* lastfm/api.py: two get_user_history(user, update=True) calls on one cache *)
(* file.  Every request of a call is answered at its first attempt, and the *)
(* requests of one fetch_tracks are answered from one state of the history. *)

\* a call that has not started: its position, the locals `since` and `res` of
\* its fetch_tracks_all, how it ended, and whether it ran while the other did
NewUpdate ==
    [pc |-> "idle", since |-> NoBound, res |-> <<>>, ret |-> "pending",
     overlap |-> FALSE]

Active(u) == u.pc \notin {"idle", "done"}

\* the call ends: with the cache file's content, or with an exception
Ended(u, outcome) == [u EXCEPT !.pc = "done", !.ret = outcome.kind]

\* get_user_history(user, update=True) is called; fetch_user_info finds the user
UpdateCall(i) ==
    /\ updates.ops[i].pc = "idle"
    /\ updates' = [updates EXCEPT !.ops =
           [j \in DOMAIN updates.ops |->
               IF j = i
               THEN [updates.ops[i] EXCEPT
                        !.pc = "load_since",
                        !.overlap = \E k \in DOMAIN updates.ops : Active(updates.ops[k])]
               ELSE IF Active(updates.ops[j])
               THEN [updates.ops[j] EXCEPT !.overlap = TRUE]
               ELSE updates.ops[j]]]
    /\ UNCHANGED <<remote, cache, pc, op, prev, remote0, since, req, max_pages, tasks,
                   res, asked, result, counterVars, resolverVars, catalogVars, historyVars, legacyVars>>

\* fetch_tracks_all: `since` from the first record of the cache file
UpdateLoadSince(i) ==
    /\ updates.ops[i].pc = "load_since"
    /\ updates' = [updates EXCEPT !.ops[i] =
           IF cache.exists
           THEN IF cache.torn THEN Ended(@, Raise("JSONDecodeError"))
                ELSE IF cache.data = <<>> THEN Ended(@, Raise("IndexError"))
                ELSE IF HasDate(cache.data[1])
                THEN [@ EXCEPT !.since = since_of_cache(cache.data), !.pc = "fetch"]
                ELSE [@ EXCEPT !.pc = "read"]
           ELSE [@ EXCEPT !.since = NoBound, !.pc = "fetch"]]
    /\ UNCHANGED <<remote, cache, pc, op, prev, remote0, since, req, max_pages, tasks,
                   res, asked, result, counterVars, resolverVars, catalogVars, historyVars, legacyVars>>

\* fetch_tracks_all: res = recursively_remove_elements(await fetch_tracks(user, since))
UpdateFetch(i) ==
    /\ updates.ops[i].pc = "fetch"
    /\ updates' = [updates EXCEPT !.ops[i] =
           [@ EXCEPT !.res = recursively_remove_elements(
                                 extract_tracks([kind |-> "ok",
                                                 body |-> RecentTracks(updates.ops[i].since)]).val),
                     !.pc = "extend"]]
    /\ UNCHANGED <<remote, cache, pc, op, prev, remote0, since, req, max_pages, tasks,
                   res, asked, result, counterVars, resolverVars, catalogVars, historyVars, legacyVars>>

\* fetch_tracks_all: res.extend(json.load(f)) when the file exists
UpdateExtend(i) ==
    /\ updates.ops[i].pc = "extend"
    /\ updates' = [updates EXCEPT !.ops[i] =
           IF keeps_cache(FALSE, cache)
           THEN IF cache.torn THEN Ended(@, Raise("JSONDecodeError"))
                ELSE [@ EXCEPT !.res = @ \o cache.data, !.pc = "open"]
           ELSE [@ EXCEPT !.pc = "open"]]
    /\ UNCHANGED <<remote, cache, pc, op, prev, remote0, since, req, max_pages, tasks,
                   res, asked, result, counterVars, resolverVars, catalogVars, historyVars, legacyVars>>

\* fetch_tracks_all: open(path, "w")
UpdateOpen(i) ==
    /\ updates.ops[i].pc = "open"
    /\ cache' = Truncated
    /\ updates' = [updates EXCEPT !.ops[i].pc = "dump"]
    /\ UNCHANGED <<remote, pc, op, prev, remote0, since, req, max_pages, tasks,
                   res, asked, result, counterVars, resolverVars, catalogVars, historyVars, legacyVars>>

\* fetch_tracks_all: json.dump(res, f) and the file is closed
UpdateDump(i) ==
    /\ updates.ops[i].pc = "dump"
    /\ cache' = File(updates.ops[i].res)
    /\ updates' = [updates EXCEPT
                      !.ops[i].pc = "read",
                      !.written = @ \cup { updates.ops[i].res[k] :
                                              k \in DOMAIN updates.ops[i].res }]
    /\ UNCHANGED <<remote, pc, op, prev, remote0, since, req, max_pages, tasks,
                   res, asked, result, counterVars, resolverVars, catalogVars, historyVars, legacyVars>>

\* get_user_history: the cache file is read and returned
UpdateRead(i) ==
    /\ updates.ops[i].pc = "read"
    /\ updates' = [updates EXCEPT !.ops[i] = Ended(@, read_cache(cache))]
    /\ UNCHANGED <<remote, cache, pc, op, prev, remote0, since, req, max_pages, tasks,
                   res, asked, result, counterVars, resolverVars, catalogVars, historyVars, legacyVars>>

----------------------------------------------------------------------------
(* lastfm/core.py: get_user_track_counter on events that lack sub-fields *)

\* an event without some of its sub-fields: track["name"], track["artist"]["name"],
\* track["album"]["#text"], track["date"]["uts"]
Without(track, fields) == [k \in (DOMAIN track) \ fields |-> track[k]]

\* bisect_left_with_descending with key=lambda x: int(x["date"]["uts"]): the key
\* raises KeyError on an event without timestamp
RECURSIVE bisect_left_with_key(_, _, _, _)
bisect_left_with_key(a, x, lo, hi) ==
    IF lo < hi
    THEN LET mid == (lo + hi) \div 2
         IN  IF ~HasDate(a[mid + 1]) THEN [ret |-> "KeyError", idx |-> mid]
             ELSE IF Uts(a[mid + 1]) < x
             THEN bisect_left_with_key(a, x, lo, mid)
             ELSE bisect_left_with_key(a, x, mid + 1, hi)
    ELSE [ret |-> "value", idx |-> lo]

\* the body of the for loop: res.append(Song(...)) unless a KeyError is caught
appended(track, ignore_album) ==
    IF /\ "name" \in DOMAIN track
       /\ "artist" \in DOMAIN track
       /\ (ignore_album \/ "album" \in DOMAIN track)
    THEN << [title |-> track.name, artist |-> track.artist,
             album |-> IF ignore_album THEN "" ELSE track.album] >>
    ELSE <<>>

\* get_user_track_counter on such a history
get_user_track_counter_on(q) ==
    LET since_idx == bisect_left_with_key(q.tracks, since_ts(q), 0, Len(q.tracks))
        until_idx == bisect_left_with_key(q.tracks, until_ts(q), 0, Len(q.tracks))
        part == Slice(q.tracks, until_idx.idx, since_idx.idx)
    IN  IF since_idx.ret = "KeyError" \/ until_idx.ret = "KeyError"
        THEN [state |-> "KeyError", since_idx |-> 0, until_idx |-> 0,
              count |-> EmptyCounter]
        ELSE [state |-> "returned", since_idx |-> since_idx.idx,
              until_idx |-> until_idx.idx,
              count |-> Counter(Concat([i \in 1..Len(part) |->
                                           appended(part[i], q.ignore_album)]))]

\* the plays of one song at the timestamps of the model, whole or without one
\* sub-field
Events ==
    { Without(Track(Played, t), fields) :
        t \in 1..MaxUts, fields \in { {}, {"name"}, {"artist"}, {"album"}, {"uts"} } }

\* every history of at most MaxTracks such events whose timestamps, where
\* present, descend
EventHistories ==
    UNION { { h \in [1..n -> Events] :
                \A i, j \in 1..n :
                    (i < j /\ HasDate(h[i]) /\ HasDate(h[j])) => Uts(h[i]) >= Uts(h[j]) }
            : n \in 0..MaxTracks }

\* the entry of the track that plays now: marked, and without date
NowPlaying ==
    [k \in {"name", "artist", "album", "image", "streamable", "nowplaying"} |->
        IF k = "nowplaying" THEN "true" ELSE RawTrack(Played, 0)[k]]

\* the raw records a page can hold: scrobbles, whole or without one sub-field,
\* and the entry of the track that plays now
RawEvents ==
    { Without(RawTrack(Played, t), fields) :
        t \in 1..MaxUts, fields \in { {}, {"name"}, {"artist"}, {"uts"} } }
    \cup { NowPlaying }

\* the histories of one page of at most MaxPageLen such records
RawPages == UNION { [1..n -> RawEvents] : n \in 0..MaxPageLen }

\* get_user_history(user, update=True, refetch=True) on a history of one page
\* whose every request is answered at once: the page goes through
\* extract_tracks and recursively_remove_elements into the cache file, which is
\* read back
RefetchOnePage ==
    /\ pc = "idle"
    /\ op' = [update |-> TRUE, refetch |-> TRUE]
    /\ prev' = cache
    /\ remote0' = remote
    /\ LET r == extract_tracks([kind |-> "ok", body |-> remote])
       IN  /\ req' = [what |-> "page", page |-> 1, n |-> 1, ret |-> r.ret, val |-> r.val,
                       last |-> [kind |-> "ok", body |-> remote]]
           /\ res' = recursively_remove_elements(r.val)
           /\ cache' = File(recursively_remove_elements(r.val))
           /\ Finish(read_cache(File(recursively_remove_elements(r.val))))
    /\ asked' = {"user_info", "total_pages", "page"}
    /\ UNCHANGED <<remote, since, max_pages, tasks, updates, counterVars,
                   resolverVars, catalogVars, historyVars, legacyVars>>

GetUserTrackCounterOn ==
    /\ counter.state = "pending"
    /\ counter' = get_user_track_counter_on(query)
    /\ UNCHANGED <<query, bisection, cacheVars, resolverVars, catalogVars, historyVars, legacyVars>>

Init ==
    /\ remote = <<>>
    /\ cache = NoFile
    /\ pc = "idle"
    /\ op = [update |-> FALSE, refetch |-> FALSE]
    /\ prev = NoFile
    /\ remote0 = <<>>
    /\ since = NoBound
    /\ req = NoReq
    /\ max_pages = 0
    /\ tasks = NoTasks
    /\ res = <<>>
    /\ asked = {}
    /\ result = NoResult
    /\ updates = NoUpdates
    /\ query = [tracks |-> <<>>, since |-> None, until |-> None, ignore_album |-> FALSE]
    /\ counter = NoCounter
    /\ bisection = NoBisection
    /\ wanted = [title |-> <<"A">>, artist |-> <<"X">>]
    /\ results = <<>>
    /\ song = NoSong
    /\ sp = [language |-> "none"]
    /\ catalog = <<>>
    /\ dpc = "idle"
    /\ searched = <<>>
    /\ earlier = <<>>
    /\ before = [language |-> "none"]
    /\ batch = NoBatch
    /\ retry = NoRetry
    /\ chunks = NoChunks
    /\ abandoned = FALSE
    /\ seasons = NoSeasons
    /\ generation = NoGeneration

Next ==
    \/ Scrobble
    \/ Call
    \/ FetchUserInfo
    \/ LoadSince
    \/ FetchTotalPages
    \/ \E p \in DOMAIN tasks : Acquire(p)
    \/ \E p \in DOMAIN tasks : PageAttempt(p)
    \/ Gather
    \/ Extend
    \/ Open
    \/ Dump
    \/ Read
    \/ Return

Spec == Init /\ [][Next]_vars

InitUpdates ==
    /\ remote = <<>>
    /\ cache = NoFile
    /\ pc = "idle"
    /\ op = [update |-> FALSE, refetch |-> FALSE]
    /\ prev = NoFile
    /\ remote0 = <<>>
    /\ since = NoBound
    /\ req = NoReq
    /\ max_pages = 0
    /\ tasks = NoTasks
    /\ res = <<>>
    /\ asked = {}
    /\ result = NoResult
    /\ updates = [ops |-> [i \in 1..2 |-> NewUpdate], written |-> {}]
    /\ query = [tracks |-> <<>>, since |-> None, until |-> None, ignore_album |-> FALSE]
    /\ counter = NoCounter
    /\ bisection = NoBisection
    /\ wanted = [title |-> <<"A">>, artist |-> <<"X">>]
    /\ results = <<>>
    /\ song = NoSong
    /\ sp = [language |-> "none"]
    /\ catalog = <<>>
    /\ dpc = "idle"
    /\ searched = <<>>
    /\ earlier = <<>>
    /\ before = [language |-> "none"]
    /\ batch = NoBatch
    /\ retry = NoRetry
    /\ chunks = NoChunks
    /\ abandoned = FALSE
    /\ seasons = NoSeasons
    /\ generation = NoGeneration

NextUpdates ==
    \/ Scrobble
    \/ \E i \in DOMAIN updates.ops : UpdateCall(i)
    \/ \E i \in DOMAIN updates.ops : UpdateLoadSince(i)
    \/ \E i \in DOMAIN updates.ops : UpdateFetch(i)
    \/ \E i \in DOMAIN updates.ops : UpdateExtend(i)
    \/ \E i \in DOMAIN updates.ops : UpdateOpen(i)
    \/ \E i \in DOMAIN updates.ops : UpdateDump(i)
    \/ \E i \in DOMAIN updates.ops : UpdateRead(i)

SpecUpdates == InitUpdates /\ [][NextUpdates]_vars

InitCounter ==
    /\ remote = <<>>
    /\ cache = NoFile
    /\ pc = "idle"
    /\ op = [update |-> FALSE, refetch |-> FALSE]
    /\ prev = NoFile
    /\ remote0 = <<>>
    /\ since = NoBound
    /\ req = NoReq
    /\ max_pages = 0
    /\ tasks = NoTasks
    /\ res = <<>>
    /\ asked = {}
    /\ result = NoResult
    /\ updates = NoUpdates
    /\ query \in [tracks : Histories, since : Bounds, until : Bounds,
                  ignore_album : BOOLEAN]
    /\ counter = NoCounter
    /\ bisection = NoBisection
    /\ wanted = [title |-> <<"A">>, artist |-> <<"X">>]
    /\ results = <<>>
    /\ song = NoSong
    /\ sp = [language |-> "none"]
    /\ catalog = <<>>
    /\ dpc = "idle"
    /\ searched = <<>>
    /\ earlier = <<>>
    /\ before = [language |-> "none"]
    /\ batch = NoBatch
    /\ retry = NoRetry
    /\ chunks = NoChunks
    /\ abandoned = FALSE
    /\ seasons = NoSeasons
    /\ generation = NoGeneration

NextCounter == GetUserTrackCounter

SpecCounter == InitCounter /\ [][NextCounter]_vars

InitBimonth ==
    /\ remote = <<>>
    /\ cache = NoFile
    /\ pc = "idle"
    /\ op = [update |-> FALSE, refetch |-> FALSE]
    /\ prev = NoFile
    /\ remote0 = <<>>
    /\ since = NoBound
    /\ req = NoReq
    /\ max_pages = 0
    /\ tasks = NoTasks
    /\ res = <<>>
    /\ asked = {}
    /\ result = NoResult
    /\ updates = NoUpdates
    /\ query \in [tracks : YearHistories, year : {Year}, month : StartMonths,
                  ignore_album : {TRUE}]
    /\ counter = NoCounter
    /\ bisection = NoBisection
    /\ wanted = [title |-> <<"A">>, artist |-> <<"X">>]
    /\ results = <<>>
    /\ song = NoSong
    /\ sp = [language |-> "none"]
    /\ catalog = <<>>
    /\ dpc = "idle"
    /\ searched = <<>>
    /\ earlier = <<>>
    /\ before = [language |-> "none"]
    /\ batch = NoBatch
    /\ retry = NoRetry
    /\ chunks = NoChunks
    /\ abandoned = FALSE
    /\ seasons = NoSeasons
    /\ generation = NoGeneration

NextBimonth == GetUserTwoMonthsTrackCounter

InitEvents ==
    /\ remote = <<>>
    /\ cache = NoFile
    /\ pc = "idle"
    /\ op = [update |-> FALSE, refetch |-> FALSE]
    /\ prev = NoFile
    /\ remote0 = <<>>
    /\ since = NoBound
    /\ req = NoReq
    /\ max_pages = 0
    /\ tasks = NoTasks
    /\ res = <<>>
    /\ asked = {}
    /\ result = NoResult
    /\ updates = NoUpdates
    /\ query \in [tracks : EventHistories, since : Bounds, until : Bounds,
                  ignore_album : BOOLEAN]
    /\ counter = NoCounter
    /\ bisection = NoBisection
    /\ wanted = [title |-> <<"A">>, artist |-> <<"X">>]
    /\ results = <<>>
    /\ song = NoSong
    /\ sp = [language |-> "none"]
    /\ catalog = <<>>
    /\ dpc = "idle"
    /\ searched = <<>>
    /\ earlier = <<>>
    /\ before = [language |-> "none"]
    /\ batch = NoBatch
    /\ retry = NoRetry
    /\ chunks = NoChunks
    /\ abandoned = FALSE
    /\ seasons = NoSeasons
    /\ generation = NoGeneration

NextEvents == GetUserTrackCounterOn

InitPage ==
    /\ remote \in RawPages
    /\ cache = NoFile
    /\ pc = "idle"
    /\ op = [update |-> FALSE, refetch |-> FALSE]
    /\ prev = NoFile
    /\ remote0 = <<>>
    /\ since = NoBound
    /\ req = NoReq
    /\ max_pages = 0
    /\ tasks = NoTasks
    /\ res = <<>>
    /\ asked = {}
    /\ result = NoResult
    /\ updates = NoUpdates
    /\ query = [tracks |-> <<>>, since |-> None, until |-> None, ignore_album |-> FALSE]
    /\ counter = NoCounter
    /\ bisection = NoBisection
    /\ wanted = [title |-> <<"A">>, artist |-> <<"X">>]
    /\ results = <<>>
    /\ song = NoSong
    /\ sp = [language |-> "none"]
    /\ catalog = <<>>
    /\ dpc = "idle"
    /\ searched = <<>>
    /\ earlier = <<>>
    /\ before = [language |-> "none"]
    /\ batch = NoBatch
    /\ retry = NoRetry
    /\ chunks = NoChunks
    /\ abandoned = FALSE
    /\ seasons = NoSeasons
    /\ generation = NoGeneration

NextPage == RefetchOnePage

SpecPage == InitPage /\ [][NextPage]_vars

SpecEvents == InitEvents /\ [][NextEvents]_vars

SpecBimonth == InitBimonth /\ [][NextBimonth]_vars

InitSelect ==
    /\ remote = <<>>
    /\ cache = NoFile
    /\ pc = "idle"
    /\ op = [update |-> FALSE, refetch |-> FALSE]
    /\ prev = NoFile
    /\ remote0 = <<>>
    /\ since = NoBound
    /\ req = NoReq
    /\ max_pages = 0
    /\ tasks = NoTasks
    /\ res = <<>>
    /\ asked = {}
    /\ result = NoResult
    /\ updates = NoUpdates
    /\ query = [tracks |-> <<>>, since |-> None, until |-> None, ignore_album |-> FALSE]
    /\ counter = NoCounter
    /\ bisection = NoBisection
    /\ wanted = [title |-> <<"A">>, artist |-> <<"X">>]
    /\ results \in { WithUris(list) : list \in CandidateLists }
    /\ song = NoSong
    /\ sp = [language |-> "none"]
    /\ catalog = <<>>
    /\ dpc = "idle"
    /\ searched = <<>>
    /\ earlier = <<>>
    /\ before = [language |-> "none"]
    /\ batch = NoBatch
    /\ retry = NoRetry
    /\ chunks = NoChunks
    /\ abandoned = FALSE
    /\ seasons = NoSeasons
    /\ generation = NoGeneration

NextSelect == SelectProperTrack \/ Select

SpecSelect == InitSelect /\ [][NextSelect]_vars

InitDetect ==
    /\ remote = <<>>
    /\ cache = NoFile
    /\ pc = "idle"
    /\ op = [update |-> FALSE, refetch |-> FALSE]
    /\ prev = NoFile
    /\ remote0 = <<>>
    /\ since = NoBound
    /\ req = NoReq
    /\ max_pages = 0
    /\ tasks = NoTasks
    /\ res = <<>>
    /\ asked = {}
    /\ result = NoResult
    /\ updates = NoUpdates
    /\ query = [tracks |-> <<>>, since |-> None, until |-> None, ignore_album |-> FALSE]
    /\ counter = NoCounter
    /\ bisection = NoBisection
    /\ wanted = [title |-> <<"A">>, artist |-> <<"X">>]
    /\ results = <<>>
    /\ song = NoSong
    /\ sp = [language |-> "none"]
    /\ catalog \in [Languages -> Answers]
    /\ dpc = "idle"
    /\ searched = <<>>
    /\ earlier = <<>>
    /\ before = [language |-> "none"]
    /\ batch = NoBatch
    /\ retry = NoRetry
    /\ chunks = NoChunks
    /\ abandoned = FALSE
    /\ seasons = NoSeasons
    /\ generation = NoGeneration

NextDetect ==
    \/ Resolve
    \/ SearchIn("ja")
    \/ SearchIn("en")
    \/ Resolved

SpecDetect == InitDetect /\ [][NextDetect]_vars

InitBatch ==
    /\ remote = <<>>
    /\ cache = NoFile
    /\ pc = "idle"
    /\ op = [update |-> FALSE, refetch |-> FALSE]
    /\ prev = NoFile
    /\ remote0 = <<>>
    /\ since = NoBound
    /\ req = NoReq
    /\ max_pages = 0
    /\ tasks = NoTasks
    /\ res = <<>>
    /\ asked = {}
    /\ result = NoResult
    /\ updates = NoUpdates
    /\ query = [tracks |-> <<>>, since |-> None, until |-> None, ignore_album |-> FALSE]
    /\ counter = NoCounter
    /\ bisection = NoBisection
    /\ wanted = [title |-> <<"A">>, artist |-> <<"X">>]
    /\ results = <<>>
    /\ song = NoSong
    /\ sp = [language |-> "none"]
    /\ catalog = [language \in Languages |-> [kind |-> "ok", items |-> <<>>]]
    /\ dpc = "idle"
    /\ searched = <<>>
    /\ earlier = <<>>
    /\ before = [language |-> "none"]
    /\ batch = NoBatch
    /\ retry = NoRetry
    /\ chunks = NoChunks
    /\ abandoned = FALSE
    /\ seasons = NoSeasons
    /\ generation = NoGeneration

NextBatch ==
    \/ BatchCall
    \/ BatchTrack
    \/ SearchIn("ja")
    \/ SearchIn("en")
    \/ BatchTake
    \/ BatchRaise

SpecBatch == InitBatch /\ [][NextBatch]_vars

\* requests.py fetch_all(coro, urls, limit): the tasks of the urls are created
\* and none has passed the semaphore; no _fetch call of the fetch has ended
InitFetchAll ==
    /\ \E n \in 1..MaxRemote : remote = [i \in 1..n |-> RawTrack(Played, n + 1 - i)]
    /\ cache = NoFile
    /\ pc = "pages"
    /\ op \in [update : { TRUE }, refetch : BOOLEAN]
    /\ prev = NoFile
    /\ remote0 = remote
    /\ since = NoBound
    /\ req = [what |-> "none", page |-> 0, n |-> 0, ret |-> "pending", val |-> <<>>,
              last |-> NoResponse(<<>>)]
    /\ max_pages = TotalPages(NoBound)
    /\ tasks = [p \in 1..TotalPages(NoBound) |-> NewTask]
    /\ res = <<>>
    /\ asked = { "user_info", "total_pages" }
    /\ result = NoResult
    /\ updates = NoUpdates
    /\ query = [tracks |-> <<>>, since |-> None, until |-> None, ignore_album |-> FALSE]
    /\ counter = NoCounter
    /\ bisection = NoBisection
    /\ wanted = [title |-> <<"A">>, artist |-> <<"X">>]
    /\ results = <<>>
    /\ song = NoSong
    /\ sp = [language |-> "none"]
    /\ catalog = <<>>
    /\ dpc = "idle"
    /\ searched = <<>>
    /\ earlier = <<>>
    /\ before = [language |-> "none"]
    /\ batch = NoBatch
    /\ retry = NoRetry
    /\ chunks = NoChunks
    /\ abandoned = FALSE
    /\ seasons = NoSeasons
    /\ generation = NoGeneration

NextFetchAll ==
    \/ \E p \in DOMAIN tasks : Acquire(p)
    \/ \E p \in DOMAIN tasks : PageAttempt(p)
    \/ Gather

\* the position of the fetch: every step moves the fetch or one of its tasks on
position == <<pc, tasks>>

\* The event loop runs every task that can run, and every request is answered
\* or fails: a waiting task that can pass the semaphore passes it, a running
\* _fetch ends, and gather returns once every task has ended.
Fairness ==
    /\ WF_position(\E p \in DOMAIN tasks : Acquire(p))
    /\ WF_position(\E p \in DOMAIN tasks : PageAttempt(p))
    /\ WF_position(Gather)

SpecFetchAll == InitFetchAll /\ [][NextFetchAll]_vars /\ Fairness

\* bisect_left_with_descending(a, x, key=...) is entered with lo = 0 and
\* hi = len(a), on every list of records (sorted or not) and every x
InitBisect ==
    /\ remote = <<>>
    /\ cache = NoFile
    /\ pc = "idle"
    /\ op = [update |-> FALSE, refetch |-> FALSE]
    /\ prev = NoFile
    /\ remote0 = <<>>
    /\ since = NoBound
    /\ req = NoReq
    /\ max_pages = 0
    /\ tasks = NoTasks
    /\ res = <<>>
    /\ asked = {}
    /\ result = NoResult
    /\ updates = NoUpdates
    /\ query = [tracks |-> <<>>, since |-> None, until |-> None, ignore_album |-> FALSE]
    /\ counter = NoCounter
    /\ \E n \in 0..MaxLen :
         \E a \in [1..n -> { Track(Played, t) : t \in 1..MaxKey }], x \in 0..(MaxKey + 1) :
            bisection = [a |-> a, x |-> x, lo |-> 0, hi |-> Len(a), evaluations |-> 0,
                         pc |-> "loop"]
    /\ wanted = [title |-> <<"A">>, artist |-> <<"X">>]
    /\ results = <<>>
    /\ song = NoSong
    /\ sp = [language |-> "none"]
    /\ catalog = <<>>
    /\ dpc = "idle"
    /\ searched = <<>>
    /\ earlier = <<>>
    /\ before = [language |-> "none"]
    /\ batch = NoBatch
    /\ retry = NoRetry
    /\ chunks = NoChunks
    /\ abandoned = FALSE
    /\ seasons = NoSeasons
    /\ generation = NoGeneration

NextBisect == BisectPass \/ BisectReturn

SpecBisect == InitBisect /\ [][NextBisect]_vars

\* a decorated function is called; what its successive invocations would do
\* is any sequence of outcomes
InitRetry ==
    /\ remote = <<>>
    /\ cache = NoFile
    /\ pc = "idle"
    /\ op = [update |-> FALSE, refetch |-> FALSE]
    /\ prev = NoFile
    /\ remote0 = <<>>
    /\ since = NoBound
    /\ req = NoReq
    /\ max_pages = 0
    /\ tasks = NoTasks
    /\ res = <<>>
    /\ asked = {}
    /\ result = NoResult
    /\ updates = NoUpdates
    /\ query = [tracks |-> <<>>, since |-> None, until |-> None, ignore_album |-> FALSE]
    /\ counter = NoCounter
    /\ bisection = NoBisection
    /\ wanted = [title |-> <<"A">>, artist |-> <<"X">>]
    /\ results = <<>>
    /\ song = NoSong
    /\ sp = [language |-> "none"]
    /\ catalog = <<>>
    /\ dpc = "idle"
    /\ searched = <<>>
    /\ earlier = <<>>
    /\ before = [language |-> "none"]
    /\ batch = NoBatch
    /\ \E module \in RetryModules, outcomes \in [1..MaxInvocations -> Outcomes] :
           retry = [module |-> module, fn |-> "func", outcomes |-> outcomes,
                    calls |-> 0, state |-> "running", value |-> None]
    /\ chunks = NoChunks
    /\ abandoned = FALSE
    /\ seasons = NoSeasons
    /\ generation = NoGeneration

NextRetry == RetryInvoke \/ RetryGiveUp

SpecRetry == InitRetry /\ [][NextRetry]_vars

\* a page of playlist items is requested, with playlist_items of
\* spotify/api.py or _playlist_items of spotify/playlist.py, each under the
\* decorator of its module
InitPlaylistItems ==
    /\ remote = <<>>
    /\ cache = NoFile
    /\ pc = "idle"
    /\ op = [update |-> FALSE, refetch |-> FALSE]
    /\ prev = NoFile
    /\ remote0 = <<>>
    /\ since = NoBound
    /\ req = NoReq
    /\ max_pages = 0
    /\ tasks = NoTasks
    /\ res = <<>>
    /\ asked = {}
    /\ result = NoResult
    /\ updates = NoUpdates
    /\ query = [tracks |-> <<>>, since |-> None, until |-> None, ignore_album |-> FALSE]
    /\ counter = NoCounter
    /\ bisection = NoBisection
    /\ wanted = [title |-> <<"A">>, artist |-> <<"X">>]
    /\ results = <<>>
    /\ song = NoSong
    /\ sp = [language |-> "none"]
    /\ catalog = <<>>
    /\ dpc = "idle"
    /\ searched = <<>>
    /\ earlier = <<>>
    /\ before = [language |-> "none"]
    /\ batch = NoBatch
    /\ \E fn \in { "playlist_items", "_playlist_items" },
          outcomes \in [1..MaxInvocations -> PlaylistAnswers] :
           retry = [module |-> IF fn = "playlist_items" THEN "spotify/api.py"
                               ELSE "spotify/utils.py",
                    fn |-> fn, outcomes |-> outcomes, calls |-> 0,
                    state |-> "running", value |-> None]
    /\ chunks = NoChunks
    /\ abandoned = FALSE
    /\ seasons = NoSeasons
    /\ generation = NoGeneration

NextPlaylistItems == RetryInvoke \/ RetryGiveUp

SpecPlaylistItems == InitPlaylistItems /\ [][NextPlaylistItems]_vars

\* a batch operation is called on a list of ids
InitChunks ==
    /\ remote = <<>>
    /\ cache = NoFile
    /\ pc = "idle"
    /\ op = [update |-> FALSE, refetch |-> FALSE]
    /\ prev = NoFile
    /\ remote0 = <<>>
    /\ since = NoBound
    /\ req = NoReq
    /\ max_pages = 0
    /\ tasks = NoTasks
    /\ res = <<>>
    /\ asked = {}
    /\ result = NoResult
    /\ updates = NoUpdates
    /\ query = [tracks |-> <<>>, since |-> None, until |-> None, ignore_album |-> FALSE]
    /\ counter = NoCounter
    /\ bisection = NoBisection
    /\ wanted = [title |-> <<"A">>, artist |-> <<"X">>]
    /\ results = <<>>
    /\ song = NoSong
    /\ sp = [language |-> "none"]
    /\ catalog = <<>>
    /\ dpc = "idle"
    /\ searched = <<>>
    /\ earlier = <<>>
    /\ before = [language |-> "none"]
    /\ batch = NoBatch
    /\ retry = NoRetry
    /\ \E operation \in BatchOps, n \in Lengths :
           chunks = [op |-> operation, ids |-> [i \in 1..n |-> i], done |-> 0, failed |-> 0,
                     fts |-> <<>>, sent |-> <<>>, state |-> "loop", ret |-> <<>>]
    /\ abandoned = FALSE
    /\ seasons = NoSeasons
    /\ generation = NoGeneration

NextChunks == ChunkSend \/ ChunkReturn

SpecChunks == InitChunks /\ [][NextChunks]_vars

----------------------------------------------------------------------------
(* lastfm/core.py: the two identity modes of get_user_track_counter *)

\* the albums of the plays of one title: two albums, and the blank album text
Albums == {"P", "Q", ""}

\* plays of A by X on these albums and of B by Y, whole or without album
ModeEvents ==
    { Without(Track(s, t), fields) :
        s \in { [name |-> "A", artist |-> "X", album |-> a] : a \in Albums }
                \cup { [name |-> "B", artist |-> "Y", album |-> "P"] },
        t \in 1..MaxUts, fields \in { {}, {"album"} } }

ModeHistories ==
    UNION { { h \in [1..n -> ModeEvents] :
                \A i, j \in 1..n : i < j => Uts(h[i]) >= Uts(h[j]) }
            : n \in 0..MaxTracks }

InitModes ==
    /\ remote = <<>>
    /\ cache = NoFile
    /\ pc = "idle"
    /\ op = [update |-> FALSE, refetch |-> FALSE]
    /\ prev = NoFile
    /\ remote0 = <<>>
    /\ since = NoBound
    /\ req = NoReq
    /\ max_pages = 0
    /\ tasks = NoTasks
    /\ res = <<>>
    /\ asked = {}
    /\ result = NoResult
    /\ updates = NoUpdates
    /\ query \in [tracks : ModeHistories, since : {None, 2}, until : {None, MaxUts},
                  ignore_album : BOOLEAN]
    /\ counter = NoCounter
    /\ bisection = NoBisection
    /\ wanted = [title |-> <<"A">>, artist |-> <<"X">>]
    /\ results = <<>>
    /\ song = NoSong
    /\ sp = [language |-> "none"]
    /\ catalog = <<>>
    /\ dpc = "idle"
    /\ searched = <<>>
    /\ earlier = <<>>
    /\ before = [language |-> "none"]
    /\ batch = NoBatch
    /\ retry = NoRetry
    /\ chunks = NoChunks
    /\ abandoned = FALSE
    /\ seasons = NoSeasons
    /\ generation = NoGeneration

NextModes == GetUserTrackCounterOn

SpecModes == InitModes /\ [][NextModes]_vars

----------------------------------------------------------------------------
(* top_track.py: the playlist loop, its specification *)

InitGenerate ==
    /\ remote = <<>>
    /\ cache = NoFile
    /\ pc = "idle"
    /\ op = [update |-> FALSE, refetch |-> FALSE]
    /\ prev = NoFile
    /\ remote0 = <<>>
    /\ since = NoBound
    /\ req = NoReq
    /\ max_pages = 0
    /\ tasks = NoTasks
    /\ res = <<>>
    /\ asked = {}
    /\ result = NoResult
    /\ updates = NoUpdates
    /\ query = [tracks |-> <<>>, since |-> None, until |-> None, ignore_album |-> FALSE]
    /\ counter = NoCounter
    /\ bisection = NoBisection
    /\ wanted = [title |-> <<"A">>, artist |-> <<"X">>]
    /\ results = <<>>
    /\ song = NoSong
    /\ sp = [language |-> "none"]
    /\ catalog = <<>>
    /\ dpc = "idle"
    /\ searched = <<>>
    /\ earlier = <<>>
    /\ before = [language |-> "none"]
    /\ batch = NoBatch
    /\ retry = NoRetry
    /\ chunks = NoChunks
    /\ abandoned = FALSE
    /\ seasons = NoSeasons
    /\ \E n \in 1..MaxPeriods, update_old \in BOOLEAN :
         \E found \in [1..n -> 0..MaxFound], listed \in SUBSET (1..n) :
             generation = [update_old |-> update_old, found |-> found, pls |-> listed,
                           playlists |-> [p \in 1..n |->
                                             IF p \in listed THEN OldPlaylist
                                             ELSE NoPlaylist],
                           at |-> 1]

NextGenerate == GeneratePeriod \/ GenerateReturn

SpecGenerate == InitGenerate /\ [][NextGenerate]_vars

----------------------------------------------------------------------------
(* lastfm-utils/playlist.py: calculate_top_tracks, its specification *)

InitSeasons ==
    /\ remote = <<>>
    /\ cache = NoFile
    /\ pc = "idle"
    /\ op = [update |-> FALSE, refetch |-> FALSE]
    /\ prev = NoFile
    /\ remote0 = <<>>
    /\ since = NoBound
    /\ req = NoReq
    /\ max_pages = 0
    /\ tasks = NoTasks
    /\ res = <<>>
    /\ asked = {}
    /\ result = NoResult
    /\ updates = NoUpdates
    /\ query = [tracks |-> <<>>, since |-> None, until |-> None, ignore_album |-> FALSE]
    /\ counter = NoCounter
    /\ bisection = NoBisection
    /\ wanted = [title |-> <<"A">>, artist |-> <<"X">>]
    /\ results = <<>>
    /\ song = NoSong
    /\ sp = [language |-> "none"]
    /\ catalog = <<>>
    /\ dpc = "idle"
    /\ searched = <<>>
    /\ earlier = <<>>
    /\ before = [language |-> "none"]
    /\ batch = NoBatch
    /\ retry = NoRetry
    /\ chunks = NoChunks
    /\ abandoned = FALSE
    /\ generation = NoGeneration
    /\ \E h \in LegacyHistories :
         seasons = [NoSeasons EXCEPT !.scrobbles = h, !.state = "called"]

NextSeasons == CalculateTopTracks

SpecSeasons == InitSeasons /\ [][NextSeasons]_vars

----------------------------------------------------------------------------
(* Claims *)

\* the records of query q with since <= timestamp < until (1-based positions)
InRange(q) ==
    { i \in 1..Len(q.tracks) :
        since_ts(q) <= Uts(q.tracks[i]) /\ Uts(q.tracks[i]) < until_ts(q) }

\* C1: for every history sorted descending by timestamp (empty, or with repeated
\* timestamps) and every since <= until, get_user_track_counter returns a counter
\* (no error) that counts exactly the events with since <= timestamp < until: the
\* slice tracks[until_idx:since_idx] holds those events and no other, and an empty
\* range or an empty history gives the empty counter.
C1_CountsExactlyRange ==
    (counter.state # "pending" /\ since_ts(query) <= until_ts(query)) =>
        /\ counter.state = "returned"
        /\ (counter.until_idx + 1)..counter.since_idx = InRange(query)
        /\ DOMAIN counter.count =
             { Song(query.tracks[i], query.ignore_album) : i \in InRange(query) }
        /\ \A k \in DOMAIN counter.count :
             counter.count[k] =
               Cardinality({ i \in InRange(query) :
                               Song(query.tracks[i], query.ignore_album) = k })
        /\ (InRange(query) = {} => counter.count = EmptyCounter)

\* C1 witness: a history of three events with a repeated timestamp, one event at
\* `until` (left out), one at `since` (counted), counted twice under one key
C1_Witness ==
    /\ counter.state = "returned"
    /\ Len(query.tracks) = 3
    /\ query.since # None /\ query.until # None /\ query.since < query.until
    /\ \E i, j \in 1..3 : i # j /\ Uts(query.tracks[i]) = Uts(query.tracks[j])
    /\ \E i \in 1..3 : Uts(query.tracks[i]) = query.until
    /\ \E i \in 1..3 : Uts(query.tracks[i]) = query.since
    /\ \E k \in DOMAIN counter.count : counter.count[k] = 2

\* the call is an update of an existing cache (update=true, refetch=false)
Incremental == op.update /\ ~op.refetch /\ prev.exists

\* no request of the call was given up, and none raised
NoRequestFailed ==
    /\ req.ret # "None"
    /\ \A p \in DOMAIN tasks : tasks[p].ret # "None"
    /\ result.kind # "ClientError"

\* C2: after any sequence of get_user_history calls with update=true by a single
\* writer, the cache file's sequence is strictly descending by timestamp and holds
\* no (title, artist, album, timestamp) tuple twice.
C2_StrictlyDescendingNoDuplicates ==
    (cache.exists /\ ~cache.torn) =>
        IsStrictlyDesc(cache.data) /\ NoDuplicates(cache.data)

\* C3: for every remote history and every split of it into an older part already
\* cached and a newer part, an incremental update followed by the read returns the
\* sequence a full refetch of the same remote history returns (the whole history).
C3_IncrementalEqualsRefetch ==
    (/\ pc = "done"
     /\ op.update
     /\ remote = remote0
     /\ NoRequestFailed
     /\ op.refetch \/ (prev.exists /\ IsSuffix(prev.data, recursively_remove_elements(remote))))
    => result = [kind |-> "return", value |-> recursively_remove_elements(remote)]

\* the newest timestamp of a non-empty sequence of records
Newest(data) ==
    CHOOSE m \in { Uts(data[i]) : i \in 1..Len(data) } :
        \A i \in 1..Len(data) : Uts(data[i]) <= m

\* C4: an incremental update (update=true, refetch=false, cache present) never
\* reorders or drops existing entries: the previous sequence is a suffix of the new
\* one, every prepended event is strictly newer than the newest event cached
\* before, and the lower bound of the fetch is that event's timestamp + 1.
C4_IncrementalOnlyPrepends ==
    Incremental =>
        /\ (pc \in {"total_pages", "pages", "extend", "open", "dump"}
              => since = Newest(prev.data) + 1)
        /\ (pc \in {"read", "done"} =>
              /\ IsSuffix(prev.data, cache.data)
              /\ \A i \in 1..(Len(cache.data) - Len(prev.data)) :
                   Uts(cache.data[i]) > Newest(prev.data))

\* the last k records of the remote history
Oldest(k) == SubSeq(remote, Len(remote) - k + 1, Len(remote))

\* the sequence a complete update leaves when the service had k records
CompleteNew(k) ==
    IF Incremental /\ prev.data # <<>>
    THEN recursively_remove_elements(
             SelectSeq(Oldest(k), LAMBDA t : Uts(t) > Uts(prev.data[1]))) \o prev.data
    ELSE recursively_remove_elements(Oldest(k))

\* C5: no failure during an update or refetch corrupts the cache: after the call,
\* whatever request failed, the cache file is the complete previous state or the
\* complete new sequence, never an empty, truncated or partial one.
C5_AllOrNothing ==
    (pc = "done" /\ op.update) =>
        \/ cache = prev
        \/ \E k \in Len(remote0)..Len(remote) : cache = File(CompleteNew(k))

\* fetch_user_info returned None: the lookup says the user does not exist
UserNotFound == op.update /\ req.what = "user_info" /\ req.ret = "None"

\* C6: when the lookup reports that the user does not exist, get_user_history with
\* update=true fails, sends no history request and leaves the cache file as it
\* was, whether or not a cache exists.
C6_UserNotFoundFails ==
    (pc = "done" /\ UserNotFound) =>
        /\ result.kind # "return"
        /\ asked \subseteq {"user_info"}
        /\ cache = prev

\* C7: get_user_history with update=false sends no request and leaves the cache
\* file unchanged for either value of refetch, and with a cache it returns exactly
\* the cached sequence.
C7_NoUpdateIsReadOnly ==
    (~op.update /\ pc \in {"read", "done"}) =>
        /\ asked = {}
        /\ cache = prev
        /\ (pc = "done" /\ prev.exists
              => result = [kind |-> "return", value |-> prev.data])

\* C7 witness: update=false with refetch=true has returned a cache that is behind
\* the remote history
C7_Witness ==
    /\ pc = "done"
    /\ ~op.update /\ op.refetch
    /\ result.kind = "return"
    /\ result.value # <<>>
    /\ Len(remote) > Len(cache.data)

C9_RetryBudget ==
    /\ req.n <= MaxAttempts
    /\ (req.last.kind = "ok" => req.ret = "value" /\ req.val = req.last.body)
    /\ (req.ret = "None" <=> req.n = MaxAttempts /\ req.last.kind = "error")

\* C9 witness: a page answered at its 5th attempt, after 4 failures, in a fetch
\* where another page was given up
C9_Witness ==
    /\ req.what = "page"
    /\ req.n = MaxAttempts
    /\ req.ret = "value"
    /\ req.val # <<>>
    /\ \E q \in DOMAIN tasks : tasks[q].ret = "None"

\* C10: in a multi-page fetch a page whose every attempt fails is given up after 5
\* attempts and contributes an empty result, while the fetch completes without
\* error and returns the data of every page that succeeded.
C10_AbandonedPageDoesNotFail ==
    (Len(tasks) > 1 /\ \E p \in DOMAIN tasks : tasks[p].ret = "None") =>
        /\ (req.ret = "None" => req.n = MaxAttempts)
        /\ result.kind # "ClientError"
        /\ (pc = "extend" =>
              res = recursively_remove_elements(
                        Concat([p \in DOMAIN tasks |->
                                   IF tasks[p].ret = "None" THEN <<>>
                                   ELSE tasks[p].val])))

\* C11: an HTTP-successful response whose envelope lacks the expected keys counts
\* as a failed attempt of the retry loop: a _fetch call whose last response was
\* such a one ended only because its 5 attempts were used up (it returned None,
\* no page of data and no exception), and the call of get_user_history is not
\* aborted by it.
C11_InvalidEnvelopeIsRetried ==
    req.last.kind = "invalid" =>
        /\ req.ret = "None"
        /\ req.n = MaxAttempts
        /\ result.kind # "ClientError"

\* C12: in every reachable state of fetch_all with limit N at most N page
\* requests are in flight (admitted through the semaphore and not yet finished,
\* retries included), and a request beyond the cap has been admitted only after
\* enough of the requests before it were finished.
C12_AtMostLimitInFlight ==
    /\ Cardinality(Running) <= Limit
    /\ \A p \in DOMAIN tasks :
         tasks[p].st # "wait" =>
             Cardinality({ q \in 1..(p - 1) : tasks[q].st = "end" }) >= p - Limit

\* C12 witness: more pages than slots; the page beyond the cap is in flight, after
\* a slot was released, and the gate is full again
C12_Witness ==
    /\ Len(tasks) > Limit
    /\ tasks[Limit + 1].st = "run"
    /\ Cardinality(Running) = Limit
    /\ \E p \in DOMAIN tasks : tasks[p].st = "end"

\* C13: whatever the order in which the page requests complete, the result of
\* fetch_all has one entry per requested url and entry i is the result of the
\* i-th url: with an unchanged remote history entry p is page p, and when no
\* request failed the concatenation is the history in page order.
C13_ResultInUrlOrder ==
    (pc = "extend" /\ req.what = "page") =>
        /\ Len(tasks) = max_pages
        /\ (remote = remote0 =>
              \A p \in DOMAIN tasks :
                  tasks[p].ret = "value" => tasks[p].val = Page(since, p))
        /\ (remote = remote0 /\ NoRequestFailed =>
              res = recursively_remove_elements(RecentTracks(since)))

\* C13 witness: a fetch of three pages or more whose first page was the last to
\* complete
C13_Witness ==
    /\ pc = "extend"
    /\ req.what = "page"
    /\ req.page = 1
    /\ Len(tasks) >= 3
    /\ remote = remote0
    /\ NoRequestFailed

\* C14: a fetch requests page 1 alone first and, once the page count is known
\* from its response, exactly the pages 2..totalPages: no page is requested
\* before that response, no page (page 1 included) is requested twice, and every
\* page's records are in the result exactly once.
C14_PageOneFetchedOnce ==
    /\ (\E p \in DOMAIN tasks : tasks[p].st # "wait") =>
           "total_pages" \in asked /\ Len(tasks) = max_pages
    /\ \A p \in DOMAIN tasks : Requested(generate_tracks_url(p, since)) <= 1
    /\ (pc = "extend" /\ remote = remote0 /\ NoRequestFailed =>
           /\ NoDuplicates(res)
           /\ Len(res) = Len(RecentTracks(since)))

\* the candidate's track name and first-listed artist equal the requested title
\* and artist, case-insensitively
ExactMatch(t) ==
    /\ casefold(t.name) = casefold(wanted.title)
    /\ casefold(t.artists[1]) = casefold(wanted.artist)

\* the primary artist of the candidate's release is the requested artist
ByArtist(t) == casefold(t.album.artists[1]) = casefold(wanted.artist)

\* positions of the exact-match filtered set in the candidate list
ExactSet == { i \in 1..Len(results) : ExactMatch(results[i]) }

\* positions of the filtered candidates of the album tier
AlbumTier ==
    { i \in ExactSet : results[i].album.album_type = "album" /\ ByArtist(results[i]) }

\* positions of the filtered candidates of the largest-release tier
ReleaseTier ==
    { i \in ExactSet :
        results[i].album.album_type # "compilation" /\ ByArtist(results[i]) }

First(S) == CHOOSE i \in S : \A j \in S : i <= j

\* C15: when the exact-match filtered set holds a candidate of an album-type
\* release by the requested artist, the resolver returns the first such candidate
\* of the list, whatever the other candidates are.
C15_AlbumTierFirst ==
    (song.state = "returned" /\ AlbumTier # {}) =>
        song.ret.uri = First(AlbumTier)

\* C16: when no filtered candidate is of the album tier, the resolver returns the
\* earliest candidate with the largest total_tracks among the filtered candidates
\* whose release is not a compilation and is by the requested artist.
C16_LargestReleaseNoCompilation ==
    (song.state = "returned" /\ AlbumTier = {} /\ ReleaseTier # {}) =>
        song.ret.uri =
            First({ i \in ReleaseTier :
                      \A j \in ReleaseTier :
                          results[j].album.total_tracks <= results[i].album.total_tracks })

\* C17: the resolver only returns a candidate whose track name and first-listed
\* artist equal the requested title and artist case-insensitively; a list
\* without such a candidate gives no match.
C17_OnlyExactMatches ==
    song.state = "returned" =>
        /\ (song.ret.uri # None => ExactMatch(results[song.ret.uri]))
        /\ (ExactSet = {} => song.ret.uri = None)

\* C18: when the filtered set is not empty and no filtered candidate's release is
\* by the requested artist, select_proper_track returns the first candidate of
\* the filtered set.
C18_FallbackFirstFiltered ==
    (/\ song.state = "returned"
     /\ song.fn = "select_proper_track"
     /\ ExactSet # {}
     /\ \A i \in ExactSet : ~ByArtist(results[i]))
    => song.ret = results[First(ExactSet)]

\* C18 witness: two filtered candidates, neither on a release by the requested
\* artist, behind a candidate that the filter drops
C18_Witness ==
    /\ song.state = "returned"
    /\ song.fn = "select_proper_track"
    /\ ExactSet = {2, 3}
    /\ \A i \in ExactSet : ~ByArtist(results[i])
    /\ results[3].album.total_tracks > results[2].album.total_tracks
    /\ song.ret.uri = 2

\* the query "title artist" of the request
TitleArtist == <<"A", " ", "X">>

\* the search in the language gave a list with a candidate that passes the
\* exact-match filter: it neither failed nor gave an empty list or filtered set
Acceptable(language) ==
    /\ catalog[language].kind = "ok"
    /\ \E i \in 1..Len(catalog[language].items) :
           ExactMatch(catalog[language].items[i])

\* C19: detect_track searches the primary locale ("ja") first with the query
\* "title artist"; it searches the secondary locale ("en") with the same query
\* if and only if the primary search failed, gave an empty list or gave an empty
\* filtered set; it returns no match if and only if neither locale gave an
\* acceptable candidate.
C19_SecondaryIffPrimaryEmpty ==
    song.fn = "detect_track" =>
        /\ Len(searched) <= 2
        /\ (searched # <<>> =>
                searched[1] = [language |-> "ja", q |-> TitleArtist])
        /\ (Len(searched) = 2 =>
                /\ searched[2] = [language |-> "en", q |-> TitleArtist]
                /\ ~Acceptable("ja"))
        /\ (dpc = "done" =>
                /\ song.state = "returned"
                /\ (Len(searched) = 2 <=> ~Acceptable("ja"))
                /\ (song.ret.uri = None <=>
                        (~Acceptable("ja") /\ ~Acceptable("en"))))

\* C19 witness: the primary search gave a list whose filtered set is empty, the
\* secondary search was made and detect_track returned its candidate
C19_Witness ==
    /\ dpc = "done"
    /\ song.fn = "detect_track"
    /\ catalog["ja"].kind = "ok"
    /\ catalog["ja"].items # <<>>
    /\ ~Acceptable("ja")
    /\ Len(searched) = 2
    /\ song.ret.uri # None

\* what the candidate lists of the two locales determine: the selection in the
\* primary locale, else the selection in the secondary locale
Selection(language) ==
    IF catalog[language].kind = "ok"
    THEN select_proper_track(catalog[language].items, wanted.title, wanted.artist)
    ELSE NoTrack

\* C20: the track detect_track returns is determined by the title, the artist
\* and the candidate lists of the two locales: every run on the session returns
\* what the earlier runs with the same inputs returned, whatever language the
\* earlier calls left on the session.
C20_Deterministic ==
    (dpc = "done" /\ song.fn = "detect_track") =>
        /\ \A i \in 1..Len(earlier) :
               earlier[i].fn = "detect_track" => earlier[i].ret = song.ret
        /\ song.ret = IF Selection("ja").uri # None THEN Selection("ja")
                      ELSE Selection("en")

\* C20 witness: a second run on a session that the earlier call left in the
\* secondary language; it finds the track in the secondary locale again
C20_Witness ==
    /\ dpc = "done"
    /\ song.fn = "detect_track"
    /\ Len(earlier) = 1
    /\ earlier[1].ret.uri # None
    /\ Len(searched) = 2
    /\ song.ret.uri # None

\* C21: when detect_track or find_track_in_spotify has returned, the session
\* (with its language setting) is as it was before the call.
C21_SessionAsBefore ==
    (dpc = "done" /\ song.state = "returned") => sp = before

\* the first instant of a month of the calendar
MonthStart(year, month) == ((year - 1970) * 12 + month - 1) * MonthLen

\* the first instant after the two months that start with `month`
WindowEnd(year, month) ==
    IF month = 11 THEN MonthStart(year + 1, 1) ELSE MonthStart(year, month + 2)

\* positions of the events of the history in the two months from `month` on
InTwoMonths(month) ==
    { i \in 1..Len(query.tracks) :
        /\ MonthStart(query.year, month) <= Uts(query.tracks[i])
        /\ Uts(query.tracks[i]) < WindowEnd(query.year, month) }

\* (A,X,Jan 15), (B,Y,Feb 20), (A,X,Mar 5), newest first
ThreeEvents ==
    << Track(Played, MonthStart(Year, 3) + 1),
       Track([name |-> "B", artist |-> "Y", album |-> "P"], MonthStart(Year, 2) + 1),
       Track(Played, MonthStart(Year, 1) + 1) >>

SongAX == [title |-> "A", artist |-> "X", album |-> ""]

SongBY == [title |-> "B", artist |-> "Y", album |-> ""]

\* C22: the two-month counter of (year, m), m odd, counts exactly the events
\* with timestamp in [first instant of month m, first instant of month m + 2),
\* into the next year after November; each event of the year lies in the range
\* of exactly one of the six counters; of the events (A,X,Jan 15), (B,Y,Feb 20),
\* (A,X,Mar 5) the counter of January has (A,X): 1 and (B,Y): 1 and the counter
\* of March has (A,X): 1.
C22_TwoMonthsWindow ==
    counter.state = "returned" =>
        /\ DOMAIN counter.count =
               { Song(query.tracks[i], query.ignore_album) : i \in InTwoMonths(query.month) }
        /\ \A k \in DOMAIN counter.count :
               counter.count[k] =
                   Cardinality({ i \in InTwoMonths(query.month) :
                                   Song(query.tracks[i], query.ignore_album) = k })
        /\ \A i \in 1..Len(query.tracks) :
               (/\ MonthStart(query.year, 1) <= Uts(query.tracks[i])
                /\ Uts(query.tracks[i]) < MonthStart(query.year + 1, 1))
               => Cardinality({ m \in StartMonths :
                                  /\ two_months(query.year, m).since <= Uts(query.tracks[i])
                                  /\ Uts(query.tracks[i]) < two_months(query.year, m).until }) = 1
        /\ (query.tracks = ThreeEvents /\ query.month = 1 =>
                /\ DOMAIN counter.count = { SongAX, SongBY }
                /\ counter.count[SongAX] = 1
                /\ counter.count[SongBY] = 1)
        /\ (query.tracks = ThreeEvents /\ query.month = 3 =>
                /\ DOMAIN counter.count = { SongAX }
                /\ counter.count[SongAX] = 1)

\* C22 witness: the counter of January and February of the three events
C22_Witness ==
    /\ counter.state = "returned"
    /\ query.tracks = ThreeEvents
    /\ query.month = 1
    /\ counter.count[SongAX] = 1

\* the call found no cache file to read and was not asked to update it
CacheMiss == ~op.update /\ ~prev.exists

\* a request of the running update failed: it was given up or its answer was
\* rejected
FetchFailed ==
    /\ op.update
    /\ \/ req.ret \in {"None", "raise"}
       \/ \E p \in DOMAIN tasks : tasks[p].ret \in {"None", "raise"}

\* C23: get_user_track_counter never ends with an error; it returns None if and
\* only if the history could not be obtained (no cache file, or a failed fetch),
\* and the empty counter when the history was obtained and none of its events
\* lies in the range.
C23_NoneIffNoHistory ==
    pc = "done" =>
        \A since_ \in Bounds, until_ \in Bounds :
            LET out == track_counter(result, since_, until_)
            IN  /\ out.kind \in {"Counter", "None"}
                /\ (out.kind = "None" <=> (CacheMiss \/ FetchFailed))
                /\ (/\ out.kind = "Counter"
                    /\ \A i \in 1..Len(result.value) :
                           ~(since_ts([since |-> since_]) <= Uts(result.value[i])
                             /\ Uts(result.value[i]) < until_ts([until |-> until_])))
                   => out.value = EmptyCounter

\* the event has every sub-field the counter needs
WellFormed(track, ignore_album) ==
    /\ {"name", "artist", "uts"} \subseteq DOMAIN track
    /\ (ignore_album \/ "album" \in DOMAIN track)

\* positions of the well-formed events of the history in the range
WellFormedInRange ==
    { i \in 1..Len(query.tracks) :
        /\ WellFormed(query.tracks[i], query.ignore_album)
        /\ since_ts(query) <= Uts(query.tracks[i])
        /\ Uts(query.tracks[i]) < until_ts(query) }

\* C24: whatever sub-fields the events of the history lack,
\* get_user_track_counter does not fail and counts exactly the well-formed
\* events in the range.
C24_MalformedSkipped ==
    counter.state # "pending" =>
        /\ counter.state = "returned"
        /\ DOMAIN counter.count =
               { Song(query.tracks[i], query.ignore_album) : i \in WellFormedInRange }
        /\ \A k \in DOMAIN counter.count :
               counter.count[k] =
                   Cardinality({ i \in WellFormedInRange :
                                   Song(query.tracks[i], query.ignore_album) = k })

\* C25: every record of the cache file has a track name, an artist and a
\* timestamp: the raw records of a page that lack one of them, the entry of the
\* track playing now among them, do not reach the cache file and do not fail the
\* fetch.
C25_CachedRecordsComplete ==
    pc = "done" =>
        /\ result.kind = "return"
        /\ cache.exists
        /\ \A i \in 1..Len(cache.data) :
               {"name", "artist", "uts"} \subseteq DOMAIN cache.data[i]

\* the running call is a refetch whose every request was answered with data
SuccessfulRefetch ==
    /\ op.update
    /\ op.refetch
    /\ result.kind = "return"
    /\ "total_pages" \in asked
    /\ req.ret = "value"
    /\ \A p \in DOMAIN tasks : tasks[p].ret = "value"

Damaged ==
    /\ cache.exists
    /\ ~cache.torn
    /\ \/ ~NoDuplicates(cache.data)
       \/ \E e \in updates.written : \A k \in DOMAIN cache.data : cache.data[k] # e

\* C27: update operations for the same user are not safe when they run
\* concurrently: the cache file comes to hold duplicate events or to lack events
\* one of them wrote only when the reads, fetches and rewrites of the two calls
\* interleave, and there is such an interleaving (the witness).
C27_DamageOnlyWhenInterleaved ==
    Damaged => \A i \in DOMAIN updates.ops : updates.ops[i].overlap

\* C27 witness: both calls have returned, and the cache file holds an event
\* twice
C27_Witness ==
    /\ \A i \in DOMAIN updates.ops :
           updates.ops[i].pc = "done" /\ updates.ops[i].ret = "return"
    /\ cache.exists
    /\ ~NoDuplicates(cache.data)

\* C28: in a top-track loop no track aborts the loop: a track without match or
\* with a failed search is skipped, the loop goes on to the next most-played
\* track, and it ends with at most the requested number of ids.
C28_NoTrackAbortsBatch ==
    /\ batch.state # "AGPException"
    /\ batch.state = "done" =>
           /\ collected(batch) <= batch.count
           /\ collected(batch) = batch.count \/ batch.i = batch.tracks

\* the pages of the fetch: each has its data or was given up
AllPagesFinal == \A p \in DOMAIN tasks : tasks[p].ret \in { "value", "None" }

\* page p of the fetch waits for the semaphore
Waiting(p) == p \in DOMAIN tasks /\ tasks[p].st = "wait"

\* C29: under fair scheduling a multi-page fetch ends, no page waits forever
\* for the semaphore (a waiting page passes it), and at the step that ends the
\* fetch every page has its data or was given up and no task holds the
\* semaphore.
C29_FetchTerminates ==
    /\ (pc = "pages") ~> (pc # "pages")
    /\ \A p \in 1..MaxRemote : Waiting(p) ~> ~Waiting(p)
    /\ [][(pc = "pages" /\ pc' # "pages") => (AllPagesFinal' /\ Running' = {})]_position

\* 2 to the power k
RECURSIVE Pow2(_)
Pow2(k) == IF k = 0 THEN 1 ELSE 2 * Pow2(k - 1)

\* ceil(log2(m)) for m >= 1: the least k with 2^k >= m
RECURSIVE CeilLog2From(_, _)
CeilLog2From(m, k) == IF Pow2(k) >= m THEN k ELSE CeilLog2From(m, k + 1)

CeilLog2(m) == CeilLog2From(m, 0)

\* C30: on a list of length n bisect_left_with_descending evaluates the key at
\* most ceil(log2(n+1)) times, and every pass halves hi - lo or better: after k
\* evaluations hi - lo is at most n / 2^k.
C30_LogarithmicEvaluations ==
    bisection.pc # "idle" =>
        /\ bisection.evaluations <= CeilLog2(Len(bisection.a) + 1)
        /\ (bisection.hi - bisection.lo) * Pow2(bisection.evaluations)
               <= Len(bisection.a)

\* C30 witness: a list of 8 records with two timestamps, bisected with the
\* full 4 evaluations of the key
C30_Witness ==
    /\ bisection.pc = "returned"
    /\ Len(bisection.a) = MaxLen
    /\ bisection.evaluations = CeilLog2(MaxLen + 1)
    /\ bisection.lo = 1
    /\ \E i, j \in DOMAIN bisection.a : Uts(bisection.a[i]) > Uts(bisection.a[j])

\* the invocations made so far that raised SpotifyException
AllSpotifyExceptions(n) ==
    \A i \in 1..n : retry.outcomes[i] = "SpotifyException"

\* the call has ended as automatic_retry with a budget of `budget` invocations
\* ends: at the first invocation that does not raise SpotifyException, with its
\* value or its exception, or with None after `budget` SpotifyExceptions
EndsWithin(budget) ==
    /\ retry.calls <= budget
    /\ AllSpotifyExceptions(retry.calls - 1)
    /\ retry.state = "returned" /\ retry.value # None =>
           retry.outcomes[retry.calls] = "value" /\ retry.value = retry.calls
    /\ retry.state = "returned" /\ retry.value = None =>
           retry.calls = budget /\ AllSpotifyExceptions(budget)
    /\ retry.state = "raised" => retry.outcomes[retry.calls] = "Exception"
    /\ retry.state = "running" => AllSpotifyExceptions(retry.calls)

\* C31 as stated: a call wrapped by automatic_retry is invoked at most 3 times;
\* it returns the value of the first invocation that does not raise
\* SpotifyException, None after 3 consecutive SpotifyExceptions, and lets any
\* other exception propagate at once.
C31_ThreeInvocations == retry.state # "idle" => EndsWithin(3)

\* C31 amended: as stated for the decorators of spotify/api.py and
\* spotify/utils.py; the decorator of spotify.py invokes the function at most
\* 5 times and returns None after 5 consecutive SpotifyExceptions.
C31_ThreeOrFiveInvocations ==
    retry.state # "idle" =>
        EndsWithin(IF retry.module = "spotify.py" THEN 5 ELSE 3)

\* C31 witness: the decorator of spotify/api.py returns the value of the third
\* invocation after two SpotifyExceptions, where a fourth invocation would
\* have raised another exception
C31_Witness ==
    /\ retry.module = "spotify/api.py"
    /\ retry.state = "returned"
    /\ retry.value = 3
    /\ retry.outcomes[4] = "Exception"

\* C32: a request for a page of playlist items is attempted again after a
\* SpotifyException that is not an invalid-playlist-id error, up to 3 attempts
\* in total, and an invalid playlist id (like a page) ends the request at once.
C32_TransientFailureRetried ==
    retry.state # "idle" =>
        /\ retry.calls <= 3
        /\ \A j \in 1..(retry.calls - 1) : retry.outcomes[j] = "SpotifyException"
        /\ retry.state # "running" /\ retry.outcomes[retry.calls] = "SpotifyException"
               => retry.calls = 3
        /\ retry.state = "running" /\ retry.calls > 0
               => retry.outcomes[retry.calls] = "SpotifyException"

\* the slice of the input list that starts at `offset`
SliceAt(offset) ==
    SubSeq(chunks.ids, offset + 1,
           IF offset + 100 < Len(chunks.ids) THEN offset + 100 ELSE Len(chunks.ids))

\* the concatenation of the slices sent
SentIds == Concat([k \in DOMAIN chunks.sent |-> chunks.sent[k].ids])

\* every call carries a slice of 1 to 100 ids of the input list, in place
SlicesInPlace ==
    \A k \in DOMAIN chunks.sent :
        /\ Len(chunks.sent[k].ids) \in 1..100
        /\ chunks.sent[k].offset % 100 = 0
        /\ chunks.sent[k].ids = SliceAt(chunks.sent[k].offset)

\* the calls made for the slice at `offset`
CallsAt(offset) == { k \in DOMAIN chunks.sent : chunks.sent[k].offset = offset }

\* fetch_audio_features_all gave up: its last slice failed 3 times
GaveUp == chunks.op = "audio_features" /\ chunks.failed = 3

\* C33 as stated: the calls carry consecutive slices of 1 to 100 ids, in list
\* order, whose concatenation is the input list once the operation has
\* returned (each id in exactly one call), and an empty list causes no call.
C33_SlicesPartitionIds ==
    chunks.state # "idle" =>
        /\ SlicesInPlace
        /\ \A k \in DOMAIN chunks.sent : chunks.sent[k].offset = (k - 1) * 100
        /\ chunks.state = "returned" => SentIds = chunks.ids

\* C33 amended: the calls carry slices of 1 to 100 ids in list order, each
\* slice sent 1 to 3 times in a row (again only after a SpotifyException), and
\* once the operation has returned the slices sent are all the consecutive
\* slices of the input list (each id in at least one call), except that
\* fetch_audio_features_all stops at the slice that failed 3 times; an empty
\* list causes no call.
C33_SlicesCoverIds ==
    chunks.state # "idle" =>
        /\ SlicesInPlace
        /\ \A k \in DOMAIN chunks.sent :
               /\ k = 1 => chunks.sent[k].offset = 0
               /\ k > 1 => chunks.sent[k].offset - chunks.sent[k - 1].offset \in { 0, 100 }
               /\ Cardinality(CallsAt(chunks.sent[k].offset)) <= 3
        /\ chunks.state = "returned" =>
               \A offset \in 0..(Len(chunks.ids) - 1) :
                   offset % 100 = 0 =>
                       \/ CallsAt(offset) # {}
                       \/ GaveUp /\ offset > chunks.sent[Len(chunks.sent)].offset
        /\ chunks.ids = <<>> => chunks.sent = <<>>

\* C33 witness: 201 ids were added in three calls of 100, 100 and 1 ids, the
\* second slice sent again after a SpotifyException
C33_Witness ==
    /\ chunks.op = "playlist_add_items"
    /\ chunks.state = "returned"
    /\ Len(chunks.ids) = 201
    /\ Len(chunks.sent) = 4
    /\ chunks.sent[2].offset = 100
    /\ chunks.sent[3].offset = 100
    /\ Len(chunks.sent[4].ids) = 1

\* C34: fetch_audio_features_all returns one feature record per id, in the
\* order of the ids, or the empty list when a slice could not be fetched after
\* its retries; never the features of a part of the ids.
C34_AllOrNothing ==
    chunks.op = "audio_features" /\ chunks.state = "returned" =>
        \/ /\ chunks.failed = 3
           /\ chunks.ret = <<>>
        \/ /\ chunks.failed = 0
           /\ Len(chunks.ret) = Len(chunks.ids)
           /\ \A i \in DOMAIN chunks.ids : chunks.ret[i] \in { chunks.ids[i], NoFeatures }

\* C34 witnesses: 201 ids whose third slice fails three times after the first
\* two were fetched, so that nothing is returned
C34_Witness ==
    /\ chunks.op = "audio_features"
    /\ chunks.state = "returned"
    /\ Len(chunks.ids) = 201
    /\ Len(chunks.fts) = 200
    /\ chunks.failed = 3
    /\ chunks.ret = <<>>

\* the counter of the query in the given identity mode
CounterIn(ignore_album) ==
    IF query.ignore_album = ignore_album
    THEN counter.count
    ELSE get_user_track_counter_on([query EXCEPT !.ignore_album = ignore_album]).count

RECURSIVE SumOver(_, _)
SumOver(c, keys) ==
    IF keys = {}
    THEN 0
    ELSE LET k == CHOOSE x \in keys : TRUE
         IN  c[k] + SumOver(c, keys \ {k})

\* the keys of the album mode that the album-ignoring key stands for
AlbumsOf(k) ==
    { x \in DOMAIN CounterIn(FALSE) : x.title = k.title /\ x.artist = k.artist }

\* C35: the counter built with ignore_album=true gives each (title, artist) the
\* sum over all albums of the counts of the counter built with
\* ignore_album=false, and both count the same number of events, also when an
\* event's album is blank or absent.
C35_ModesAgree ==
    counter.state = "returned" =>
        /\ \A k \in DOMAIN CounterIn(TRUE) : CounterIn(TRUE)[k] = SumOver(CounterIn(FALSE), AlbumsOf(k))
        /\ \A x \in DOMAIN CounterIn(FALSE) :
               [title |-> x.title, artist |-> x.artist, album |-> ""] \in DOMAIN CounterIn(TRUE)
        /\ SumOver(CounterIn(TRUE), DOMAIN CounterIn(TRUE))
               = SumOver(CounterIn(FALSE), DOMAIN CounterIn(FALSE))

\* the running call is an incremental update of an existing cache file, all of
\* whose requests were answered, and it has written the file
SucceededIncrementally ==
    /\ pc = "done"
    /\ result.kind = "return"
    /\ op.update /\ ~op.refetch
    /\ prev.exists /\ ~prev.torn
    /\ {"user_info", "total_pages"} \subseteq asked
    /\ req.ret = "value"
    /\ \A p \in DOMAIN tasks : tasks[p].ret = "value"

\* the cache file holds every scrobble of the history h
CacheHolds(h) ==
    /\ cache.exists /\ ~cache.torn
    /\ \A i \in DOMAIN h :
           \E j \in DOMAIN cache.data : cache.data[j] = recursively_remove_elements(<<h[i]>>)[1]

\* C36: once a page of an update was abandoned, every later incremental update
\* whose requests all succeed leaves a cache file that holds every scrobble the
\* service had when that update was called.
C36_AbandonedPageRecovered ==
    (abandoned /\ SucceededIncrementally) => CacheHolds(remote0)

\* the errors of a call that come from the content of the cache file
CacheErrors == {"IndexError", "JSONDecodeError", "KeyError"}

\* C37: an incremental update (update=true, refetch=false) that finds a cache
\* file written by an earlier update or refetch, the empty list included, does
\* not fail on the file's content, and neither does a range count of it.
C37_WrittenStateAccepted ==
    (pc = "done" /\ op.update /\ ~op.refetch /\ prev.exists /\ ~prev.torn) =>
        /\ result.kind \notin CacheErrors
        /\ \A s \in {None, 1}, u \in {None, MaxRemote} :
               get_user_track_counter_on(
                   [tracks |-> prev.data, since |-> s, until |-> u,
                    ignore_album |-> FALSE]).state = "returned"

\* the playlist of period p as it was before the loop
Before(p) == IF p \in generation.pls THEN OldPlaylist ELSE NoPlaylist

\* the periods the loop has passed
Passed ==
    IF generation.at = 0
    THEN DOMAIN generation.found
    ELSE 1..(generation.at - 1)

\* C38: a two-month period without any top track is passed without effect on
\* the catalog: no playlist is created for it, and with update_old its
\* playlist keeps its tracks and its details.
C38_EmptyPeriodHasNoEffect ==
    \A p \in Passed :
        generation.found[p] = 0 => generation.playlists[p] = Before(p)

\* the season counters that hold scrobble i of the history (1-based)
CountedIn(i) ==
    { k \in DOMAIN seasons.windows :
        seasons.windows[k].start < i /\ i <= seasons.windows[k].end }

\* scrobble i lies between the start of the first season and the reference time
Covered(i) ==
    /\ timestamp(seasons.first) <= seasons.scrobbles[i].time
    /\ seasons.scrobbles[i].time < timestamp(seasons.ref_time)

\* C39: every scrobble between the start of the first season and the reference
\* time is counted in exactly one season counter of calculate_top_tracks, the
\* scrobbles at the first and at the last second of a season included.
C39_SeasonsPartition ==
    seasons.state = "returned" =>
        \A i \in DOMAIN seasons.scrobbles : Covered(i) => Cardinality(CountedIn(i)) = 1

====
